---- MODULE Spec2Model ----
(***************************************************************************)
(* Model of the sales / product-master record stores of the Coupang sales  *)
(* dashboard: the useSalesData and useProductMaster hooks, the IndexedDB   *)
(* wrapper DB they persist through, and the three spreadsheet ingestion    *)
(* entry points of excelParser.ts.                                         *)
(*                                                                         *)
(* Dates are the strings the parser writes.  Quantities are integers.      *)
(* A JavaScript Map is a sequence of values with pairwise distinct keys,   *)
(* in insertion order (Map.set on a present key keeps the position).       *)
(***************************************************************************)
EXTENDS Integers, Sequences, FiniteSets, TLC

\* ------------------------------------------------------------------ bounds
MaxBatch == 2
MaxUploads == 2
MaxClears == 1
MaxRows == 3
MaxDays == 8

\* --------------------------------------------------------- program constants
STORAGE_KEY == "coupang_sales_records"
MASTER_STORAGE_KEY == "coupang_product_master"
NumPublicPaths == 3

\* a value of the object store, and "no value": what DB.get resolves with for a
\* missing key (request.result || null; an array, even an empty one, is truthy)
Stored(v) == [present |-> TRUE, value |-> v]

Absent == [present |-> FALSE, value |-> <<>>]

\* ------------------------------------------------------------ value domains
\* dates that parse
ValidDates == {"2026-01-01", "2026-01-02"}

\* and what the 8-digit rule of the date parser writes for the cell 20261345
AllDates == ValidDates \cup {"2026-13-45"}

Rec(p, d, s, i, n) ==
    [productId |-> p, date |-> d, salesQty |-> s, inventoryQty |-> i, productName |-> n]

\* rows the uploads of the hook specification are made of
SpecRows == {Rec(p, d, 2, 1, "n2") : p \in {"A", "B"}, d \in ValidDates}

\* rows the merge specification draws from
MergeRows ==
    [productId : {"A", "B"}, date : AllDates, salesQty : {1, 2},
     inventoryQty : {0, 1}, productName : {"n1", "n2"}]

Batches(rows) == UNION {[1..n -> rows] : n \in 1..MaxBatch}

\* ------------------------------------------------------------- pure helpers
Range(s) == {s[i] : i \in DOMAIN s}

\* `${r.productId}_${r.date}`
Key(r) == <<r.productId, r.date>>

KeysOf(recs) == {Key(recs[i]) : i \in DOMAIN recs}

MapHas(m, k) == \E i \in DOMAIN m : Key(m[i]) = k

MapGet(m, k) == m[CHOOSE i \in DOMAIN m : Key(m[i]) = k]

\* Map.prototype.set: replace in place, or append
MapSet(m, r) ==
    IF MapHas(m, Key(r))
    THEN [i \in DOMAIN m |-> IF Key(m[i]) = Key(r) THEN r ELSE m[i]]
    ELSE Append(m, r)

\* an aggregation that keeps the last row of a key instead of summing
RECURSIVE AggregateBatchNoSum(_, _)
AggregateBatchNoSum(batchMap, rest) ==
    IF rest = <<>> THEN batchMap ELSE AggregateBatchNoSum(MapSet(batchMap, Head(rest)), Tail(rest))

\* step 1 of addRecords: aggregate inside the batch
RECURSIVE AggregateBatch(_, _)
AggregateBatch(batchMap, rest) ==
    IF rest = <<>> THEN batchMap
    ELSE LET r == Head(rest)
             k == Key(r)
             next ==
                 IF MapHas(batchMap, k)
                 THEN LET existing == MapGet(batchMap, k)
                      IN  MapSet(batchMap,
                                 [r EXCEPT !.salesQty = existing.salesQty + r.salesQty,
                                           !.inventoryQty = existing.inventoryQty + r.inventoryQty])
                 ELSE MapSet(batchMap, r)
         IN  AggregateBatch(next, Tail(rest))

\* prev.forEach(r => existingMap.set(key, r)) and batchMap.forEach(... existingMap.set(key, newItem))
RECURSIVE SetAll(_, _)
SetAll(m, rest) ==
    IF rest = <<>> THEN m ELSE SetAll(MapSet(m, Head(rest)), Tail(rest))

\* a merge that keeps the batch alone
MergeBatchOnly(prev, newRecords) == AggregateBatch(<<>>, newRecords)

\* a merge that adds the batch to the stored quantities
MergeAccumulate(prev, newRecords) == AggregateBatch(SetAll(<<>>, prev), newRecords)

\* Array.from(existingMap.values()) before the sort
MergeUnsorted(prev, newRecords) ==
    SetAll(SetAll(<<>>, prev), AggregateBatch(<<>>, newRecords))

\* the batch after a merge that sums into the rows of the batch themselves:
\* the first row of a key holds the quantities of all rows of the key
BatchAfterInPlace(newRecords) ==
    [i \in DOMAIN newRecords |->
        IF \E j \in 1..(i - 1) : Key(newRecords[j]) = Key(newRecords[i]) THEN newRecords[i]
        ELSE MapGet(AggregateBatch(<<>>, newRecords), Key(newRecords[i]))]

\* the batch as the caller of addRecords holds it afterwards: batchMap takes
\* copies ({ ...r }, { ...existing, ...r }) and all sums go into the copies,
\* so the array and its rows are as they were
BatchAfter(newRecords) == newRecords

\* new Date(d).getTime(), in days, for the dates that parse; NaN otherwise
IsValidDate(d) == d \in ValidDates

getTime(d) == IF d = "2026-01-01" THEN 1 ELSE 2

\* the comparator of the sort; a NaN result counts as +0 (ECMA-262 SortCompare)
SortCompare(a, b) ==
    IF IsValidDate(a.date) /\ IsValidDate(b.date) THEN getTime(a.date) - getTime(b.date) ELSE 0

RECURSIVE InsertSorted(_, _)
InsertSorted(sorted, r) ==
    IF sorted = <<>> THEN <<r>>
    ELSE IF SortCompare(sorted[Len(sorted)], r) > 0
         THEN Append(InsertSorted(SubSeq(sorted, 1, Len(sorted) - 1), r), sorted[Len(sorted)])
         ELSE Append(sorted, r)

RECURSIVE StableSort(_)
StableSort(list) ==
    IF list = <<>> THEN <<>>
    ELSE InsertSorted(StableSort(SubSeq(list, 1, Len(list) - 1)), list[Len(list)])

RECURSIVE Perms(_)
Perms(S) ==
    IF S = {} THEN {<<>>}
    ELSE UNION {{<<x>> \o p : p \in Perms(S \ {x})} : x \in S}

\* Array.prototype.sort with the date comparator.  With every date parseable
\* the comparator is consistent and the sort is stable ascending.  A date that
\* does not parse makes the comparator return NaN: it is then not a consistent
\* comparator and the order is implementation-defined.
SortResults(list) ==
    IF \A i \in DOMAIN list : IsValidDate(list[i].date)
    THEN {StableSort(list)}
    ELSE Perms(Range(list))

\* ------------------------------------------------------- product master
\* a field that holds undefined
Undefined == "undefined"

NoNum == [def |-> FALSE, n |-> 0]

Num(n) == [def |-> TRUE, n |-> n]

\* a ProductMaster as parseProductMaster builds it: every property is set,
\* the optional ones to undefined when the file has no such column
Master(b, name, img, hq) ==
    [barcode |-> b, skuName |-> name, skuId |-> "k1", category |-> Undefined,
     costPrice |-> NoNum, imageUrl |-> img, hqInventory |-> hq]

\* rows the uploads of the master specification are made of
MasterRows ==
    {Master(b, n, img, hq) :
        b \in {"b1", "b2"}, n \in {"s1", "s2"}, img \in {Undefined, "u2"}, hq \in {NoNum, Num(7)}}

\* the rows of one file have the same columns
SameColumns(r1, r2) ==
    /\ (r1.imageUrl = Undefined) = (r2.imageUrl = Undefined)
    /\ r1.hqInventory.def = r2.hqInventory.def

MasterBatches ==
    {b \in UNION {[1..n -> MasterRows] : n \in 1..MaxBatch} :
        \A i, j \in DOMAIN b : SameColumns(b[i], b[j])}

MasterBarcodes(recs) == {recs[i].barcode : i \in DOMAIN recs}

MasterHas(m, k) == \E i \in DOMAIN m : m[i].barcode = k

MasterGet(m, k) == m[CHOOSE i \in DOMAIN m : m[i].barcode = k]

\* existingMap.set(r.barcode, r)
MasterSet(m, r) ==
    IF MasterHas(m, r.barcode)
    THEN [i \in DOMAIN m |-> IF m[i].barcode = r.barcode THEN r ELSE m[i]]
    ELSE Append(m, r)

\* { ...a, ...b }: every own property of b, an undefined one too, replaces a's
Spread(a, b) ==
    [k \in DOMAIN a \cup DOMAIN b |-> IF k \in DOMAIN b THEN b[k] ELSE a[k]]

\* prev.forEach(r => existingMap.set(r.barcode, r))
RECURSIVE MasterSetAll(_, _)
MasterSetAll(m, rest) ==
    IF rest = <<>> THEN m ELSE MasterSetAll(MasterSet(m, Head(rest)), Tail(rest))

\* newRecords.forEach(newItem => ...)
RECURSIVE MergeMasterBatch(_, _)
MergeMasterBatch(existingMap, rest) ==
    IF rest = <<>> THEN existingMap
    ELSE LET newItem == Head(rest)
             key == newItem.barcode
             next ==
                 IF key = "" THEN existingMap
                 ELSE IF MasterHas(existingMap, key)
                 THEN MasterSet(existingMap, Spread(MasterGet(existingMap, key), newItem))
                 ELSE MasterSet(existingMap, newItem)
         IN  MergeMasterBatch(next, Tail(rest))

\* Array.from(existingMap.values())
MasterMerge(prev, newRecords) ==
    MergeMasterBatch(MasterSetAll(<<>>, prev), newRecords)

\* ------------------------------------------------------------- spreadsheet
\* Characters outside ASCII are written by their code points.  The Korean
\* words of the sources:
\*   U+B0A0 U+C9DC  날짜
\*   U+C77C U+C790  일자
\*   U+C8FC U+BB38 U+C77C U+C790  주문일자
\*   U+ACB0 U+C81C U+C77C U+C790  결제일자
\*   U+C8FC U+BB38 U+C77C  주문일
\*   U+C0C1 U+D488 U+BA85  상품명
\*   U+C635 U+C158 U+BA85  옵션명
\*   U+C81C U+D488 U+BA85  제품명
\*   U+D488 U+BAA9  품목
\*   U+BC14 U+CF54 U+B4DC  바코드
\*   U+C811 U+C218 U+C77C  접수일
\*   U+D310 U+B9E4 U+C77C  판매일
\*   U+C0C1 U+D488 U+CF54 U+B4DC  상품코드
\*   U+C5C5 U+CCB4 U+C0C1 U+D488 U+CF54 U+B4DC  업체상품코드
\*   U+BC18 U+D488  반품
\*   U+C785 U+ACE0  입고
\*   U+C7AC U+ACE0  재고
\*   U+BC1C U+C8FC  발주
\*   U+CD9C U+ACE0 U+C218 U+B7C9  출고수량
\*   U+CD9C U+ACE0 U+B7C9  출고량
\*   U+CD9C U+ACE0  출고
\*   U+ACB0 U+C81C U+C218 U+B7C9  결제수량
\*   U+D310 U+B9E4 U+B7C9  판매량
\*   U+D310 U+B9E4 U+C218 U+B7C9  판매수량
\*   U+C8FC U+BB38 U+C218 U+B7C9  주문수량
\*   U+ACB0 U+C81C  결제
\*   U+C218 U+B7C9  수량
\*   U+AC1C U+C218  개수
\*   U+D310 U+B9E4  판매
\*   U+C635 U+C158  옵션
\*   U+B4F1 U+B85D U+C0C1 U+D488  등록상품
\*   U+D569 U+ACC4  합계
\*   U+C18C U+ACC4  소계
\*   U+CF54 U+B4DC  코드
\*   U+CE74 U+D14C U+ACE0 U+B9AC  카테고리
\*   U+C6D0 U+AC00  원가
\*   U+C774 U+BBF8 U+C9C0  이미지
\*   U+BCF8 U+C0AC U+C7AC U+ACE0  본사재고
\*   U+CC3D U+ACE0  창고
\*   U+D655 U+C815  확정
\*   U+ACF5 U+AE09  공급
\*   U+C785 U+ACE0 U+C218 U+B7C9  입고수량
\*   U+BC18 U+D488 U+C218 U+B7C9  반품수량
\* A text is the sequence of its characters.  A JavaScript number with
\* finitely many decimals is m / 10^e.  A cell of the decoded grid is a text,
\* a number or empty (undefined).
RECURSIVE Dec(_, _)
Dec(m, e) == IF e > 0 /\ m % 10 = 0 THEN Dec(m \div 10, e - 1) ELSE [m |-> m, e |-> e]

Whole(n) == Dec(n, 0)

Text(s) == [t |-> "text", s |-> s, n |-> Whole(0)]

Number(v) == [t |-> "num", s |-> <<>>, n |-> v]

Empty == [t |-> "empty", s |-> <<>>, n |-> Whole(0)]

Digits == <<"0", "1", "2", "3", "4", "5", "6", "7", "8", "9">>

IsDigit(c) == \E i \in DOMAIN Digits : Digits[i] = c

DigitValue(c) == (CHOOSE i \in DOMAIN Digits : Digits[i] = c) - 1

RECURSIVE NatToText(_)
NatToText(n) ==
    IF n < 10 THEN <<Digits[n + 1]>> ELSE Append(NatToText(n \div 10), Digits[(n % 10) + 1])

RECURSIVE Pow10(_)
Pow10(e) == IF e = 0 THEN 1 ELSE 10 * Pow10(e - 1)

\* String.prototype.padStart(width, '0')
RECURSIVE PadStart(_, _)
PadStart(s, width) == IF Len(s) >= width THEN s ELSE PadStart(<<"0">> \o s, width)

\* Number.prototype.toString
NumToText(v) ==
    LET mag == IF v.m < 0 THEN 0 - v.m ELSE v.m
    IN  (IF v.m < 0 THEN <<"-">> ELSE <<>>)
          \o NatToText(mag \div Pow10(v.e))
          \o (IF v.e = 0 THEN <<>> ELSE <<".">> \o PadStart(NatToText(mag % Pow10(v.e)), v.e))

\* String(x)
ToStr(cell) ==
    IF cell.t = "text" THEN cell.s
    ELSE IF cell.t = "num" THEN NumToText(cell.n)
    ELSE <<"u", "n", "d", "e", "f", "i", "n", "e", "d">>

\* JavaScript truthiness of a cell
Truthy(cell) ==
    IF cell.t = "text" THEN cell.s # <<>>
    ELSE IF cell.t = "num" THEN cell.n.m # 0
    ELSE FALSE

IsSpace(c) == c = " "

\* String.prototype.trim
RECURSIVE Trim(_)
Trim(s) ==
    IF s # <<>> /\ IsSpace(Head(s)) THEN Trim(Tail(s))
    ELSE IF s # <<>> /\ IsSpace(s[Len(s)]) THEN Trim(SubSeq(s, 1, Len(s) - 1))
    ELSE s

\* String.prototype.toLowerCase
ToLowerCase(s) ==
    LET upper == <<"A", "B", "C", "D", "E", "F", "G", "H", "I", "J", "K", "L", "M", "N", "O", "P", "Q", "R", "S", "T", "U", "V", "W", "X", "Y", "Z">>
        lower == <<"a", "b", "c", "d", "e", "f", "g", "h", "i", "j", "k", "l", "m", "n", "o", "p", "q", "r", "s", "t", "u", "v", "w", "x", "y", "z">>
    IN  [i \in DOMAIN s |->
            IF \E j \in DOMAIN upper : upper[j] = s[i]
            THEN lower[CHOOSE j \in DOMAIN upper : upper[j] = s[i]]
            ELSE s[i]]

\* the text has the word at position i
HasAt(s, word, i) ==
    /\ i >= 1
    /\ i + Len(word) - 1 <= Len(s)
    /\ SubSeq(s, i, i + Len(word) - 1) = word

\* String.prototype.includes
Includes(s, word) == \E i \in 1..(Len(s) + 1) : HasAt(s, word, i)

\* a regular expression /a1|a2|.../i is the set of its alternatives, in lower
\* case; an alternative is a word, or two words with any white space (\s*)
\* in between
MatchesAlt(s, alt) ==
    IF Len(alt) = 1 THEN Includes(s, alt[1])
    ELSE \E i \in 1..(Len(s) + 1), j \in 1..(Len(s) + 1) :
            /\ HasAt(s, alt[1], i)
            /\ j >= i + Len(alt[1])
            /\ \A k \in (i + Len(alt[1]))..(j - 1) : IsSpace(s[k])
            /\ HasAt(s, alt[2], j)

\* RegExp.prototype.test with the i flag
Test(regex, s) == LET lower == ToLowerCase(s) IN \E alt \in regex : MatchesAlt(lower, alt)

\* a header after h?.toString().trim(): a text, or undefined for an empty cell
Header(cell) == IF cell.t = "empty" THEN Empty ELSE Text(Trim(ToStr(cell)))

\* the headers a row gives
HeadersOf(row) == [i \in DOMAIN row |-> Header(row[i])]

\* regex.test(h): an undefined h is tested as the text "undefined"
TestHeader(regex, h) == Test(regex, ToStr(h))

\* the regular expressions of parseExcel; those of the barcode and of the
\* sales column in the order in which they are tried
Re ==
    [hasDate |-> {<<<<"U+B0A0", "U+C9DC">>>>, <<<<"d", "a", "t", "e">>>>, <<<<"U+C77C", "U+C790">>>>, <<<<"U+C8FC", "U+BB38", "U+C77C", "U+C790">>>>, <<<<"U+ACB0", "U+C81C", "U+C77C", "U+C790">>>>, <<<<"U+C8FC", "U+BB38", "U+C77C">>>>},
     hasProduct |-> {<<<<"U+C0C1", "U+D488", "U+BA85">>>>, <<<<"U+C635", "U+C158", "U+BA85">>>>, <<<<"p", "r", "o", "d", "u", "c", "t">>>>, <<<<"s", "k", "u">>>>, <<<<"i", "t", "e", "m">>>>,
                     <<<<"U+C81C", "U+D488", "U+BA85">>>>, <<<<"U+D488", "U+BAA9">>>>, <<<<"U+BC14", "U+CF54", "U+B4DC">>>>, <<<<"b", "a", "r", "c", "o", "d", "e">>>>},
     date |-> {<<<<"U+B0A0", "U+C9DC">>>>, <<<<"d", "a", "t", "e">>>>, <<<<"U+C77C", "U+C790">>>>, <<<<"U+C8FC", "U+BB38", "U+C77C", "U+C790">>>>, <<<<"U+ACB0", "U+C81C", "U+C77C", "U+C790">>>>, <<<<"U+C8FC", "U+BB38", "U+C77C">>>>,
               <<<<"U+C811", "U+C218", "U+C77C">>>>, <<<<"U+D310", "U+B9E4", "U+C77C">>>>},
     barcode |-> <<{<<<<"U+BC14", "U+CF54", "U+B4DC">>>>, <<<<"b", "a", "r", "c", "o", "d", "e">>>>},
                   {<<<<"U+C0C1", "U+D488", "U+CF54", "U+B4DC">>>>, <<<<"i", "t", "e", "m", "c", "o", "d", "e">>>>},
                   {<<<<"U+C5C5", "U+CCB4", "U+C0C1", "U+D488", "U+CF54", "U+B4DC">>>>, <<<<"v", "e", "n", "d", "o", "r", "i", "t", "e", "m", "c", "o", "d", "e">>>>, <<<<"s", "k", "u">>>>}>>,
     name |-> {<<<<"U+C0C1", "U+D488", "U+BA85">>>>, <<<<"U+C635", "U+C158", "U+BA85">>>>, <<<<"p", "r", "o", "d", "u", "c", "t">>>>, <<<<"s", "k", "u">>>>, <<<<"i", "t", "e", "m">>>>, <<<<"U+C81C", "U+D488", "U+BA85">>>>,
               <<<<"U+D488", "U+BAA9">>>>},
     invalidSales |-> {<<<<"U+BC18", "U+D488">>>>, <<<<"U+C785", "U+ACE0">>>>, <<<<"U+C7AC", "U+ACE0">>>>, <<<<"U+BC1C", "U+C8FC">>>>},
     sales |-> <<{<<<<"U+CD9C", "U+ACE0", "U+C218", "U+B7C9">>>>, <<<<"U+CD9C", "U+ACE0", "U+B7C9">>>>, <<<<"U+CD9C", "U+ACE0">>>>, <<<<"U+ACB0", "U+C81C", "U+C218", "U+B7C9">>>>, <<<<"U+D310", "U+B9E4", "U+B7C9">>>>,
                  <<<<"U+D310", "U+B9E4", "U+C218", "U+B7C9">>>>},
                 {<<<<"U+C8FC", "U+BB38", "U+C218", "U+B7C9">>>>, <<<<"U+ACB0", "U+C81C">>, <<"U+C218", "U+B7C9">>>>, <<<<"s", "a", "l", "e", "s">>>>, <<<<"q", "u", "a", "n", "t", "i", "t", "y">>>>},
                 {<<<<"U+C218", "U+B7C9">>>>, <<<<"q", "t", "y">>>>, <<<<"U+AC1C", "U+C218">>>>, <<<<"U+D310", "U+B9E4">>>>}>>,
     inventory |-> {<<<<"U+C7AC", "U+ACE0">>>>, <<<<"i", "n", "v", "e", "n", "t", "o", "r", "y">>>>, <<<<"s", "t", "o", "c", "k">>>>},
     id |-> {<<<<"U+C635", "U+C158", "i", "d">>>>, <<<<"U+B4F1", "U+B85D", "U+C0C1", "U+D488", "i", "d">>>>, <<<<"i", "d">>>>},
     sku |-> {<<<<"U+C5C5", "U+CCB4", "U+C0C1", "U+D488", "U+CF54", "U+B4DC">>>>, <<<<"s", "k", "u">>, <<"i", "d">>>>, <<<<"s", "k", "u">>>>},
     total |-> {<<<<"U+D569", "U+ACC4">>>>, <<<<"U+C18C", "U+ACC4">>>>, <<<<"t", "o", "t", "a", "l">>>>, <<<<"s", "u", "m">>>>}]

\* findIndex: the first (from 0) of the indexes (from 1) that hit, or -1
FirstHit(hits) == IF hits = {} THEN -1 ELSE (CHOOSE i \in hits : \A j \in hits : i <= j) - 1

\* headers.findIndex(h => !excluded.test(h) && regex.test(h))
FindIndex(headers, regex, excluded) ==
    FirstHit({i \in DOMAIN headers :
                 TestHeader(regex, headers[i]) /\ ~TestHeader(excluded, headers[i])})

\* the regular expressions are tried in order until one finds a column
FirstFound(headers, regexes, excluded) ==
    LET idxs == [k \in DOMAIN regexes |-> FindIndex(headers, regexes[k], excluded)]
    IN  IF \A k \in DOMAIN idxs : idxs[k] = -1 THEN -1
        ELSE idxs[CHOOSE k \in DOMAIN idxs : idxs[k] # -1 /\ \A j \in 1..(k - 1) : idxs[j] = -1]

\* row[idx], undefined outside the row
At(row, idx) == IF idx + 1 \in DOMAIN row THEN row[idx + 1] ELSE Empty

\* row.join(' '): an undefined element gives the empty text
RECURSIVE Join(_)
Join(row) ==
    IF row = <<>> THEN <<>>
    ELSE LET first == IF Head(row).t = "empty" THEN <<>> ELSE ToStr(Head(row))
         IN  IF Len(row) = 1 THEN first ELSE first \o <<" ">> \o Join(Tail(row))

\* the header row search of parseExcel over the first 20 rows: the index
\* (from 0) of the first row that names a date and a product, else 0
headerRowIndexOf(rawData) ==
    LET found == {i \in 0..(Len(rawData) - 1) :
                     /\ i < 20
                     /\ rawData[i + 1] # <<>>
                     /\ LET rowStr == ToLowerCase(Join(rawData[i + 1]))
                        IN  Test(Re.hasDate, rowStr) /\ Test(Re.hasProduct, rowStr)}
    IN  IF found = {} THEN 0 ELSE CHOOSE i \in found : \A j \in found : i <= j

\* the columns resolved with no header excluded from the sales quantity
SalesColumnsNoExclusion(rawData) ==
    LET headers == HeadersOf(rawData[headerRowIndexOf(rawData) + 1])
    IN  [dateIdx |-> FindIndex(headers, Re.date, {}),
         barcodeIdx |-> FirstFound(headers, Re.barcode, {}),
         nameIdx |-> FindIndex(headers, Re.name, {}),
         salesIdx |-> FirstFound(headers, Re.sales, {}),
         inventoryIdx |-> FindIndex(headers, Re.inventory, {}),
         idIdx |-> FindIndex(headers, Re.id, {}),
         skuIdx |-> FindIndex(headers, Re.sku, {})]

\* the column indexes parseExcel resolves from the headers of the header row
\* found, else of row 0
SalesColumns(rawData) ==
    LET headers == HeadersOf(rawData[headerRowIndexOf(rawData) + 1])
    IN  [dateIdx |-> FindIndex(headers, Re.date, {}),
         barcodeIdx |-> FirstFound(headers, Re.barcode, {}),
         nameIdx |-> FindIndex(headers, Re.name, {}),
         salesIdx |-> FirstFound(headers, Re.sales, Re.invalidSales),
         inventoryIdx |-> FindIndex(headers, Re.inventory, {}),
         idIdx |-> FindIndex(headers, Re.id, {}),
         skuIdx |-> FindIndex(headers, Re.sku, {})]

\* the required columns read as: name or barcode, and date or quantity
MissingRequiredEither(cols) ==
    \/ cols.nameIdx = -1 /\ cols.barcodeIdx = -1
    \/ cols.dateIdx = -1 /\ cols.salesIdx = -1

\* if (nameIdx === -1 && barcodeIdx === -1) { if (dateIdx === -1 || salesIdx === -1) ... }
MissingRequired(cols) ==
    cols.nameIdx = -1 /\ cols.barcodeIdx = -1 /\ (cols.dateIdx = -1 \/ cols.salesIdx = -1)

\* s.replace(/[^0-9.-]/g, '')
NumericChars(s) == SelectSeq(s, LAMBDA c : IsDigit(c) \/ c \in {".", "-"})

RECURSIVE LeadingDigits(_)
LeadingDigits(s) ==
    IF s # <<>> /\ IsDigit(Head(s)) THEN <<Head(s)>> \o LeadingDigits(Tail(s)) ELSE <<>>

RECURSIVE DigitsToNat(_)
DigitsToNat(s) ==
    IF s = <<>> THEN 0 ELSE 10 * DigitsToNat(SubSeq(s, 1, Len(s) - 1)) + DigitValue(s[Len(s)])

\* parseFloat(s) || 0 (strict = FALSE): the longest prefix that is a number,
\* an optional minus sign, digits, a dot, digits.  Number(s) || 0 (strict =
\* TRUE): the whole text must be such a number, a plus sign is accepted too,
\* and the empty text is 0.  A text that is no number gives NaN, hence 0.
ToNumberOrZero(s, strict) ==
    LET signed == s # <<>> /\ (Head(s) = "-" \/ (strict /\ Head(s) = "+"))
        body == IF signed THEN Tail(s) ELSE s
        whole == LeadingDigits(body)
        rest == SubSeq(body, Len(whole) + 1, Len(body))
        dotted == rest # <<>> /\ Head(rest) = "."
        frac == IF dotted THEN LeadingDigits(Tail(rest)) ELSE <<>>
        mag == DigitsToNat(whole \o frac)
        wellFormed ==
            /\ whole \o frac # <<>>
            /\ strict => Len(rest) = (IF dotted THEN 1 + Len(frac) ELSE 0)
    IN  IF ~wellFormed THEN Whole(0)
        ELSE Dec(IF signed /\ Head(s) = "-" THEN 0 - mag ELSE mag, Len(frac))

\* parseNum of parseExcel
parseNum(val) ==
    IF val.t = "num" THEN val.n
    ELSE IF val.t = "text" THEN ToNumberOrZero(Trim(NumericChars(val.s)), FALSE)
    ELSE Whole(0)

\* ------------------------------------------------------------------- dates
\* the calendar date of a day counted from 1970-01-01
CivilFromDays(days) ==
    LET z == days + 719468
        era == z \div 146097
        doe == z - era * 146097
        yoe == (doe - doe \div 1460 + doe \div 36524 - doe \div 146096) \div 365
        doy == doe - (365 * yoe + yoe \div 4 - yoe \div 100)
        mp == (5 * doy + 2) \div 153
        d == doy - (153 * mp + 2) \div 5 + 1
        m == IF mp < 10 THEN mp + 3 ELSE mp - 9
        y == yoe + era * 400 + (IF m <= 2 THEN 1 ELSE 0)
    IN  [valid |-> TRUE, y |-> y, m |-> m, d |-> d]

\* the day, counted from 1970-01-01, of a calendar date
DaysFromCivil(y0, m, d) ==
    LET y == IF m <= 2 THEN y0 - 1 ELSE y0
        era == y \div 400
        yoe == y - era * 400
        doy == (153 * (IF m > 2 THEN m - 3 ELSE m + 9) + 2) \div 5 + d - 1
        doe == yoe * 365 + yoe \div 4 - yoe \div 100 + doy
    IN  era * 146097 + doe - 719468

InvalidDate == [valid |-> FALSE, y |-> 0, m |-> 0, d |-> 0]

\* the local calendar date of a time, given as whole days since the epoch and
\* milliseconds of the day (UTC), in a zone tz minutes east of UTC
LocalDate(days, msOfDay, tz) ==
    CivilFromDays(days + (msOfDay + tz * 60000) \div (86400 * 1000))

\* format(dt, 'yyyy-MM-dd')
FormatDate(dt) ==
    PadStart(NatToText(dt.y), 4) \o <<"-">> \o PadStart(NatToText(dt.m), 2)
        \o <<"-">> \o PadStart(NatToText(dt.d), 2)

DaysInMonth(y, m) ==
    IF m = 2 THEN (IF (y % 4 = 0 /\ y % 100 # 0) \/ y % 400 = 0 THEN 29 ELSE 28)
    ELSE IF m \in {4, 6, 9, 11} THEN 30 ELSE 31

\* the runs of digits of a text, in order
RECURSIVE DigitRuns(_)
DigitRuns(s) ==
    IF s = <<>> THEN <<>>
    ELSE IF IsDigit(Head(s))
    THEN LET run == LeadingDigits(s)
         IN  <<run>> \o DigitRuns(SubSeq(s, Len(run) + 1, Len(s)))
    ELSE DigitRuns(Tail(s))

\* new Date(text) for a text that is a year, a month and a day separated by
\* "-" or by "/", a time of day may follow: the date-only ISO form
\* YYYY-MM-DD is midnight UTC, the other forms are local time.  A month or
\* a day that does not exist, and any other text, give Invalid Date.
DateFromText(s, tz) ==
    LET t == Trim(s)
        runs == DigitRuns(t)
        shaped ==
            /\ Len(runs) >= 3
            /\ Len(runs[1]) = 4 /\ Len(runs[2]) \in {1, 2} /\ Len(runs[3]) \in {1, 2}
            /\ HasAt(t, runs[1], 1)
            /\ t[5] \in {"-", "/"}
            /\ HasAt(t, runs[2] \o <<t[5]>> \o runs[3], 6)
            /\ LET after == 7 + Len(runs[2]) + Len(runs[3])
               IN  after > Len(t) \/ t[after] = " "
    IN  IF ~shaped THEN InvalidDate
        ELSE LET y == DigitsToNat(runs[1])
                 m == DigitsToNat(runs[2])
                 d == DigitsToNat(runs[3])
                 iso == Len(t) = 10 /\ t[5] = "-" /\ Len(runs[2]) = 2 /\ Len(runs[3]) = 2
             IN  IF ~(m \in 1..12 /\ d \in 1..DaysInMonth(y, m)) THEN InvalidDate
                 ELSE IF iso THEN LocalDate(DaysFromCivil(y, m, d), 0, tz)
                 ELSE [valid |-> TRUE, y |-> y, m |-> m, d |-> d]

\* new Date(rawDate): a number is a time in milliseconds since the epoch
NewDate(rawDate, tz) ==
    IF rawDate.t = "num"
    THEN LET ms == rawDate.n.m \div Pow10(rawDate.n.e)
         IN  LocalDate(ms \div (86400 * 1000), ms % (86400 * 1000), tz)
    ELSE DateFromText(rawDate.s, tz)

\* new Date(Math.round((rawDate - 25569) * 86400 * 1000)) for a number of at
\* most five decimals, whose milliseconds are whole
SerialDate(v, tz) ==
    LET scaled == v.m - 25569 * Pow10(v.e)
    IN  LocalDate(scaled \div Pow10(v.e),
                  (scaled % Pow10(v.e)) * ((86400 * 1000) \div Pow10(v.e)), tz)

\* the date parsing with generic date parsing tried before the other rules
parseDateGenericFirst(rawDate, todayStr, tz) ==
    IF ~Truthy(rawDate) THEN todayStr
    ELSE LET strVal == Trim(ToStr(rawDate))
             yyyymmddParams == SelectSeq(strVal, IsDigit)
             dt == NewDate(rawDate, tz)
         IN  IF dt.valid /\ dt.y > 2000 /\ dt.y < 2100 THEN FormatDate(dt)
             ELSE IF Len(yyyymmddParams) = 8 /\ HasAt(yyyymmddParams, <<"2", "0">>, 1)
             THEN SubSeq(yyyymmddParams, 1, 4) \o <<"-">> \o SubSeq(yyyymmddParams, 5, 6)
                      \o <<"-">> \o SubSeq(yyyymmddParams, 7, 8)
             ELSE IF /\ rawDate.t = "num"
                     /\ rawDate.n.m > 35000 * Pow10(rawDate.n.e)
                     /\ rawDate.n.m < 60000 * Pow10(rawDate.n.e)
             THEN FormatDate(SerialDate(rawDate.n, tz))
             ELSE todayStr

\* the date parsing of parseExcel: the date written into the record
parseDate(rawDate, todayStr, tz) ==
    IF ~Truthy(rawDate) THEN todayStr
    ELSE LET strVal == Trim(ToStr(rawDate))
             yyyymmddParams == SelectSeq(strVal, IsDigit)
         IN  IF Len(yyyymmddParams) = 8 /\ HasAt(yyyymmddParams, <<"2", "0">>, 1)
             THEN SubSeq(yyyymmddParams, 1, 4) \o <<"-">> \o SubSeq(yyyymmddParams, 5, 6)
                      \o <<"-">> \o SubSeq(yyyymmddParams, 7, 8)
             ELSE IF /\ rawDate.t = "num"
                     /\ rawDate.n.m > 35000 * Pow10(rawDate.n.e)
                     /\ rawDate.n.m < 60000 * Pow10(rawDate.n.e)
             THEN FormatDate(SerialDate(rawDate.n, tz))
             ELSE LET dt == NewDate(rawDate, tz)
                  IN  IF dt.valid /\ dt.y > 2000 /\ dt.y < 2100 THEN FormatDate(dt) ELSE todayStr

\* one data row of parseExcel, where a row without a date that parses is
\* skipped
SalesRowSkipsUndated(row, cols, todayStr, tz) ==
    LET name == IF cols.nameIdx # -1 THEN At(row, cols.nameIdx)
                ELSE IF cols.barcodeIdx # -1 THEN At(row, cols.barcodeIdx)
                ELSE Text(<<"U", "n", "k", "n", "o", "w", "n">>)
        firstCell == IF Truthy(At(row, 0)) THEN ToStr(At(row, 0)) ELSE <<>>
        rawDate == At(row, IF cols.dateIdx # -1 THEN cols.dateIdx ELSE 0)
        barcode ==
            IF cols.barcodeIdx # -1 /\ Truthy(At(row, cols.barcodeIdx))
            THEN Trim(ToStr(At(row, cols.barcodeIdx)))
            ELSE IF Truthy(At(row, 8)) THEN Trim(ToStr(At(row, 8)))
            ELSE <<"-">>
        id == IF cols.idIdx # -1 THEN Trim(ToStr(At(row, cols.idIdx))) ELSE Trim(ToStr(name))
    IN  IF row = <<>> \/ ~Truthy(name) THEN <<>>
        ELSE IF Test(Re.total, firstCell) \/ Test(Re.total, ToStr(name)) THEN <<>>
        ELSE IF parseDate(rawDate, <<>>, tz) = <<>> THEN <<>>
        ELSE <<[productId |-> id,
                skuId |-> IF cols.skuIdx # -1 THEN Trim(ToStr(At(row, cols.skuIdx))) ELSE id,
                productName |-> Trim(ToStr(name)),
                barcode |-> barcode,
                date |-> parseDate(rawDate, todayStr, tz),
                salesQty |-> IF cols.salesIdx # -1 THEN parseNum(At(row, cols.salesIdx)) ELSE Whole(0),
                inventoryQty |-> IF cols.inventoryIdx # -1 THEN parseNum(At(row, cols.inventoryIdx)) ELSE Whole(0)]>>

\* one data row of parseExcel, where column I is consulted only when no
\* header was resolved for the barcode
SalesRowHeaderOnly(row, cols, todayStr, tz) ==
    LET name == IF cols.nameIdx # -1 THEN At(row, cols.nameIdx)
                ELSE IF cols.barcodeIdx # -1 THEN At(row, cols.barcodeIdx)
                ELSE Text(<<"U", "n", "k", "n", "o", "w", "n">>)
        firstCell == IF Truthy(At(row, 0)) THEN ToStr(At(row, 0)) ELSE <<>>
        targetDateIdx == IF cols.dateIdx # -1 THEN cols.dateIdx ELSE 0
        barcode ==
            IF cols.barcodeIdx # -1
            THEN (IF Truthy(At(row, cols.barcodeIdx)) THEN Trim(ToStr(At(row, cols.barcodeIdx)))
                  ELSE <<"-">>)
            ELSE IF Truthy(At(row, 8)) THEN Trim(ToStr(At(row, 8)))
            ELSE <<"-">>
        id == IF cols.idIdx # -1 THEN Trim(ToStr(At(row, cols.idIdx))) ELSE Trim(ToStr(name))
    IN  IF row = <<>> \/ ~Truthy(name) THEN <<>>
        ELSE IF Test(Re.total, firstCell) \/ Test(Re.total, ToStr(name)) THEN <<>>
        ELSE <<[productId |-> id,
                skuId |-> IF cols.skuIdx # -1 THEN Trim(ToStr(At(row, cols.skuIdx))) ELSE id,
                productName |-> Trim(ToStr(name)),
                barcode |-> barcode,
                date |-> parseDate(At(row, targetDateIdx), todayStr, tz),
                salesQty |-> IF cols.salesIdx # -1 THEN parseNum(At(row, cols.salesIdx)) ELSE Whole(0),
                inventoryQty |-> IF cols.inventoryIdx # -1 THEN parseNum(At(row, cols.inventoryIdx)) ELSE Whole(0)]>>

\* one data row of parseExcel: no record, or the record it pushes
SalesRow(row, cols, todayStr, tz) ==
    LET name == IF cols.nameIdx # -1 THEN At(row, cols.nameIdx)
                ELSE IF cols.barcodeIdx # -1 THEN At(row, cols.barcodeIdx)
                ELSE Text(<<"U", "n", "k", "n", "o", "w", "n">>)
        firstCell == IF Truthy(At(row, 0)) THEN ToStr(At(row, 0)) ELSE <<>>
        targetDateIdx == IF cols.dateIdx # -1 THEN cols.dateIdx ELSE 0
        barcode ==
            IF cols.barcodeIdx # -1 /\ Truthy(At(row, cols.barcodeIdx))
            THEN Trim(ToStr(At(row, cols.barcodeIdx)))
            ELSE IF Truthy(At(row, 8)) THEN Trim(ToStr(At(row, 8)))
            ELSE <<"-">>
        id == IF cols.idIdx # -1 THEN Trim(ToStr(At(row, cols.idIdx))) ELSE Trim(ToStr(name))
    IN  IF row = <<>> \/ ~Truthy(name) THEN <<>>
        ELSE IF Test(Re.total, firstCell) \/ Test(Re.total, ToStr(name)) THEN <<>>
        ELSE <<[productId |-> id,
                skuId |-> IF cols.skuIdx # -1 THEN Trim(ToStr(At(row, cols.skuIdx))) ELSE id,
                productName |-> Trim(ToStr(name)),
                barcode |-> barcode,
                date |-> parseDate(At(row, targetDateIdx), todayStr, tz),
                salesQty |-> IF cols.salesIdx # -1 THEN parseNum(At(row, cols.salesIdx)) ELSE Whole(0),
                inventoryQty |-> IF cols.inventoryIdx # -1 THEN parseNum(At(row, cols.inventoryIdx)) ELSE Whole(0)]>>

\* what a row loop pushes, row after row
RECURSIVE Flatten(_)
Flatten(pushed) == IF pushed = <<>> THEN <<>> ELSE Head(pushed) \o Flatten(Tail(pushed))

\* the data rows: those below row `header` (from 0)
DataRows(rawData, header) == SubSeq(rawData, header + 2, Len(rawData))

\* a settled promise: resolve({ records, errors }), or reject(err)
Resolved(recs, errs) == [status |-> "resolved", records |-> recs, errors |-> errs]

Rejected == [status |-> "rejected", records |-> <<>>, errors |-> <<>>]

\* parseExcel that reports the missing columns and reads the rows all the same
parseExcelKeepsRows(rawData, todayStr, tz) ==
    IF Len(rawData) < 2 THEN Resolved(<<>>, <<"empty file or no header">>)
    ELSE LET cols == SalesColumns(rawData)
             rows == DataRows(rawData, headerRowIndexOf(rawData))
         IN  Resolved(Flatten([i \in DOMAIN rows |-> SalesRow(rows[i], cols, todayStr, tz)]),
                      IF MissingRequired(cols) THEN <<"required columns not found">> ELSE <<>>)

\* parseExcel on the decoded first sheet
parseExcel(rawData, todayStr, tz) ==
    IF Len(rawData) < 2 THEN Resolved(<<>>, <<"empty file or no header">>)
    ELSE LET cols == SalesColumns(rawData)
             rows == DataRows(rawData, headerRowIndexOf(rawData))
         IN  IF MissingRequired(cols)
             THEN Resolved(<<>>, <<"required columns not found">>)
             ELSE Resolved(Flatten([i \in DOMAIN rows |-> SalesRow(rows[i], cols, todayStr, tz)]), <<>>)

\* ------------------------------------------------ product master and inbound
\* the indexes (from 1) of the headers that include one of the words, after
\* clean(h) = h.replace(/\s+/g, '').toLowerCase() or as they are
Hits(headers, words, cleaned) ==
    {i \in DOMAIN headers :
        /\ headers[i].t = "text"
        /\ LET h == IF cleaned
                    THEN ToLowerCase(SelectSeq(headers[i].s, LAMBDA c : ~IsSpace(c)))
                    ELSE headers[i].s
           IN  \E w \in words : Includes(h, w)}

\* findIndex reaches an undefined header before its first hit: clean(h) and
\* h.includes throw a TypeError
ScanThrows(headers, hits) ==
    \E u \in DOMAIN headers : headers[u].t = "empty" /\ \A i \in hits : i > u

\* the hits of the seven header scans of parseProductMaster
MasterScans(headers) ==
    [barcode |-> Hits(headers, {<<"U+BC14", "U+CF54", "U+B4DC">>, <<"b", "a", "r", "c", "o", "d", "e">>, <<"e", "a", "n">>, <<"u", "p", "c">>}, TRUE),
     name |-> Hits(headers, {<<"U+C0C1", "U+D488", "U+BA85">>, <<"s", "k", "u", "n", "a", "m", "e">>, <<"n", "a", "m", "e">>, <<"U+C81C", "U+D488", "U+BA85">>}, TRUE),
     skuId |-> Hits(headers, {<<"s", "k", "u", "i", "d">>, <<"s", "k", "u">>, <<"c", "o", "d", "e">>, <<"U+CF54", "U+B4DC">>}, TRUE),
     category |-> Hits(headers, {<<"U+CE74", "U+D14C", "U+ACE0", "U+B9AC">>, <<"C", "a", "t", "e", "g", "o", "r", "y">>}, FALSE),
     cost |-> Hits(headers, {<<"U+C6D0", "U+AC00">>, <<"C", "o", "s", "t">>}, FALSE),
     image |-> Hits(headers, {<<"U+C774", "U+BBF8", "U+C9C0">>, <<"i", "m", "a", "g", "e">>, <<"i", "m", "g">>, <<"u", "r", "l">>}, TRUE),
     hq |-> Hits(headers, {<<"U+BCF8", "U+C0AC", "U+C7AC", "U+ACE0">>, <<"h", "q">>, <<"w", "a", "r", "e", "h", "o", "u", "s", "e">>, <<"U+CC3D", "U+ACE0">>}, TRUE)]

\* parseNumMaster of parseProductMaster
parseNumMaster(val) ==
    IF val.t = "num" THEN val.n
    ELSE IF val.t = "text" THEN ToNumberOrZero(Trim(SelectSeq(val.s, LAMBDA c : c # ",")), TRUE)
    ELSE Whole(0)

\* one data row of parseProductMaster: no product, or the product it pushes.
\* An optional property is <<>> for undefined, else the one value.
MasterRow(row, idx) ==
    LET barcode ==
            IF Truthy(At(row, 10)) THEN Trim(ToStr(At(row, 10)))
            ELSE IF Truthy(At(row, idx.barcode)) THEN Trim(ToStr(At(row, idx.barcode)))
            ELSE <<>>
        name == IF idx.name # -1 THEN Trim(ToStr(At(row, idx.name))) ELSE <<>>
        skuId == IF idx.skuId # -1 THEN Trim(ToStr(At(row, idx.skuId))) ELSE <<>>
    IN  IF row = <<>> \/ barcode = <<>> \/ barcode = <<"-">> THEN <<>>
        ELSE <<[barcode |-> barcode,
                skuName |-> IF name # <<>> THEN name ELSE IF skuId # <<>> THEN skuId ELSE <<"U", "n", "k", "n", "o", "w", "n">>,
                skuId |-> skuId,
                category |-> IF idx.category # -1 THEN <<Trim(ToStr(At(row, idx.category)))>> ELSE <<>>,
                costPrice |-> IF idx.cost # -1 THEN <<parseNumMaster(At(row, idx.cost))>> ELSE <<>>,
                imageUrl |-> IF idx.image # -1 THEN <<Trim(ToStr(At(row, idx.image)))>> ELSE <<>>,
                hqInventory |-> IF idx.hq # -1 THEN <<parseNumMaster(At(row, idx.hq))>> ELSE <<>>]>>

\* parseProductMaster on the decoded first sheet
parseProductMaster(rawData) ==
    IF Len(rawData) < 2 THEN Resolved(<<>>, <<"empty file or no header">>)
    ELSE LET headers == HeadersOf(rawData[1])
             scans == MasterScans(headers)
             idx == [f \in DOMAIN scans |-> FirstHit(scans[f])]
             rows == DataRows(rawData, 0)
         IN  IF \E f \in DOMAIN scans : ScanThrows(headers, scans[f]) THEN Rejected
             ELSE IF idx.barcode = -1 THEN Resolved(<<>>, <<"barcode column not found">>)
             ELSE Resolved(Flatten([i \in DOMAIN rows |-> MasterRow(rows[i], idx)]), <<>>)

\* the header scans parseInboundData carries out, in order: barcode, name,
\* and the quantity by priority, where a scan of a lower priority happens
\* only when the one before found nothing
InboundScans(headers) ==
    LET q1 == Hits(headers, {<<"U+D655", "U+C815">>, <<"c", "o", "n", "f", "i", "r", "m", "e", "d">>}, TRUE)
        q2 == Hits(headers, {<<"U+ACF5", "U+AE09">>, <<"U+C785", "U+ACE0">>, <<"s", "u", "p", "p", "l", "y">>, <<"i", "n", "b", "o", "u", "n", "d">>}, TRUE)
        q3 == Hits(headers, {<<"U+C218", "U+B7C9">>, <<"q", "t", "y">>}, TRUE)
    IN  <<Hits(headers, {<<"U+BC14", "U+CF54", "U+B4DC">>, <<"b", "a", "r", "c", "o", "d", "e">>}, TRUE),
          Hits(headers, {<<"U+C0C1", "U+D488", "U+BA85">>, <<"n", "a", "m", "e">>, <<"p", "r", "o", "d", "u", "c", "t">>}, TRUE), q1>>
            \o (IF q1 = {} THEN <<q2>> ELSE <<>>)
            \o (IF q1 = {} /\ q2 = {} THEN <<q3>> ELSE <<>>)

\* one data row of parseInboundData: no record, or the record it pushes
InboundRow(row, barcodeIdx, nameIdx, qtyIdx) ==
    LET barcode == IF Truthy(At(row, barcodeIdx)) THEN Trim(ToStr(At(row, barcodeIdx))) ELSE <<>>
        val == At(row, qtyIdx)
        qty == IF qtyIdx = -1 \/ val.t = "empty" THEN Whole(0)
               ELSE IF val.t = "num" THEN val.n
               ELSE ToNumberOrZero(NumericChars(SelectSeq(val.s, LAMBDA c : c # ",")), TRUE)
    IN  IF row = <<>> \/ barcode = <<>> \/ barcode = <<"-">> THEN <<>>
        ELSE IF qty.m > 0
        THEN <<[barcode |-> barcode,
                productName |-> IF nameIdx # -1 THEN Trim(ToStr(At(row, nameIdx))) ELSE <<"U", "n", "k", "n", "o", "w", "n">>,
                inboundQty |-> qty]>>
        ELSE <<>>

\* parseInboundData on the decoded first sheet: the column of the quantity is
\* the one the last quantity scan found
parseInboundData(rawData) ==
    IF Len(rawData) < 2 THEN Resolved(<<>>, <<"empty file or no header">>)
    ELSE LET headers == HeadersOf(rawData[1])
             scans == InboundScans(headers)
             rows == DataRows(rawData, 0)
         IN  IF \E k \in DOMAIN scans : ScanThrows(headers, scans[k]) THEN Rejected
             ELSE IF scans[1] = {} THEN Resolved(<<>>, <<"barcode column not found">>)
             ELSE Resolved(Flatten([i \in DOMAIN rows |->
                                       InboundRow(rows[i], FirstHit(scans[1]), FirstHit(scans[2]),
                                                  FirstHit(scans[Len(scans)]))]), <<>>)

\* --------------------------------------------------------------- analytics
\* a < b for texts of digits and "-" in the order Array.prototype.sort gives
\* strings: by UTF-16 code units
RECURSIVE Before(_, _)
Before(a, b) ==
    LET code(c) == IF c = "-" THEN 45 ELSE 48 + DigitValue(c)
    IN  IF b = <<>> THEN FALSE
        ELSE IF a = <<>> THEN TRUE
        ELSE IF Head(a) = Head(b) THEN Before(Tail(a), Tail(b))
        ELSE code(Head(a)) < code(Head(b))

\* summaryMap, a Map from barcode to ProductSummary, is the sequence of its
\* values in insertion order; the key of a value is its barcode.  The place
\* of a key (from 1), or 0
IndexOfBarcode(summaryMap, key) ==
    IF \E i \in DOMAIN summaryMap : summaryMap[i].barcode = key
    THEN CHOOSE i \in DOMAIN summaryMap : summaryMap[i].barcode = key
    ELSE 0

\* masterData.forEach: a summary per master barcode, trimmed
RECURSIVE SeedSummaries(_, _)
SeedSummaries(summaryMap, masterData) ==
    IF masterData = <<>> THEN summaryMap
    ELSE LET m == Head(masterData)
             key == Trim(m.barcode)
             i == IndexOfBarcode(summaryMap, key)
             summary == [productId |-> key,
                         skuId |-> m.skuId,
                         productName |-> m.skuName,
                         barcode |-> key,
                         imageUrl |-> m.imageUrl,
                         cumulativeSales |-> 0,
                         coupangInventory |-> 0,
                         hqInventory |-> IF m.hqInventory.def THEN m.hqInventory.n ELSE 0,
                         dailySalesMap |-> <<>>]
         IN  SeedSummaries(IF m.barcode = <<>> THEN summaryMap
                           ELSE IF i = 0 THEN Append(summaryMap, summary)
                           ELSE [summaryMap EXCEPT ![i] = summary],
                           Tail(masterData))

\* the sales barcode as it is: r.barcode || '-'
SalesBarcodeUntrimmed(r) == IF r.barcode # <<>> THEN r.barcode ELSE <<"-">>

\* r.barcode ? String(r.barcode).trim() : '-'
SalesBarcode(r) == IF r.barcode # <<>> THEN Trim(r.barcode) ELSE <<"-">>

\* validRecords.forEach: each record is added to the summary of its barcode,
\* which is created when the master has none
RECURSIVE AddSales(_, _, _)
AddSales(summaryMap, validRecords, latestDateStr) ==
    IF validRecords = <<>> THEN summaryMap
    ELSE LET r == Head(validRecords)
             barcode == SalesBarcode(r)
             found == IndexOfBarcode(summaryMap, barcode)
             orphan == [productId |-> IF r.barcode # <<>> THEN r.barcode ELSE r.productId,
                        skuId |-> IF r.skuId # "" THEN r.skuId ELSE r.productId,
                        productName |-> r.productName,
                        barcode |-> barcode,
                        imageUrl |-> Undefined,
                        cumulativeSales |-> 0,
                        coupangInventory |-> 0,
                        hqInventory |-> 0,
                        dailySalesMap |-> <<>>]
             map == IF found = 0 THEN Append(summaryMap, orphan) ELSE summaryMap
             i == IF found = 0 THEN Len(map) ELSE found
             daily == map[i].dailySalesMap
         IN  AddSales([map EXCEPT ![i] =
                          [@ EXCEPT !.cumulativeSales = @ + r.salesQty,
                                    !.coupangInventory =
                                        IF r.date = latestDateStr THEN @ + r.inventoryQty ELSE @,
                                    !.dailySalesMap =
                                        [d \in DOMAIN daily \cup {r.date} |->
                                            IF d = r.date
                                            THEN (IF d \in DOMAIN daily THEN daily[d] ELSE 0) + r.salesQty
                                            ELSE daily[d]]]],
                      Tail(validRecords), latestDateStr)

\* the summary with the date of the last record taken for the latest date
getProductSummaryLastRecord(records, masterData) ==
    LET seeded == SeedSummaries(<<>>, masterData)
        validRecords == SelectSeq(records, LAMBDA r : r.date # <<>>)
    IN  IF records = <<>> \/ validRecords = <<>> THEN seeded
        ELSE AddSales(seeded, validRecords, validRecords[Len(validRecords)].date)

\* getProductSummary(records, masterData)
getProductSummary(records, masterData) ==
    LET seeded == SeedSummaries(<<>>, masterData)
        validRecords == SelectSeq(records, LAMBDA r : r.date # <<>>)
        dates == {validRecords[i].date : i \in DOMAIN validRecords}
        latestDateStr == CHOOSE d \in dates : \A e \in dates : ~Before(d, e)
    IN  IF records = <<>> \/ validRecords = <<>> THEN seeded
        ELSE AddSales(seeded, validRecords, latestDateStr)

\* the sums of one item into its group with each total replaced by the
\* item's instead of added to
AddToGroupOverwriting(group, item) ==
    [group EXCEPT !.items = Append(@, item),
                  !.totalCumulativeSales = item.cumulativeSales,
                  !.totalCoupangInventory = item.coupangInventory,
                  !.totalHqInventory = item.hqInventory,
                  !.dailySalesMap = item.dailySalesMap]

\* one step of items.forEach once the group exists: push the item, take its
\* image when the group has none, add its totals and its daily sales
AddToGroup(group, item) ==
    LET daily == group.dailySalesMap
        added == item.dailySalesMap
        falsy(url) == url = Undefined \/ url = ""
    IN  [group EXCEPT !.items = Append(@, item),
                      !.imageUrl = IF falsy(@) /\ ~falsy(item.imageUrl) THEN item.imageUrl ELSE @,
                      !.totalCumulativeSales = @ + item.cumulativeSales,
                      !.totalCoupangInventory = @ + item.coupangInventory,
                      !.totalHqInventory = @ + item.hqInventory,
                      !.dailySalesMap =
                          [d \in DOMAIN daily \cup DOMAIN added |->
                              (IF d \in DOMAIN daily THEN daily[d] ELSE 0)
                                  + (IF d \in DOMAIN added THEN added[d] ELSE 0)]]

\* groupProductsByName(items): the values of the Map from productName to
\* ProductGroup, in insertion order
groupProductsByName(items) ==
    LET fresh(item) == [groupName |-> item.productName,
                        imageUrl |-> item.imageUrl,
                        totalCumulativeSales |-> 0,
                        totalCoupangInventory |-> 0,
                        totalHqInventory |-> 0,
                        dailySalesMap |-> <<>>,
                        items |-> <<>>]
        groups[n \in 0..Len(items)] ==
            IF n = 0 THEN <<>>
            ELSE LET item == items[n]
                     before == groups[n - 1]
                     has == \E g \in DOMAIN before : before[g].groupName = item.productName
                     all == IF has THEN before ELSE Append(before, fresh(item))
                     g == CHOOSE g \in DOMAIN all : all[g].groupName = item.productName
                 IN  [all EXCEPT ![g] = AddToGroup(@, item)]
    IN  groups[Len(items)]

\* the number n / d of integers n and d > 0, kept exact: in lowest terms
Ratio(n, d) ==
    LET divides(g) == n % g = 0 /\ d % g = 0
        g == CHOOSE g \in 1..d : divides(g) /\ \A h \in (g + 1)..d : ~divides(h)
    IN  [num |-> n \div g, den |-> d \div g]

\* the status with the warning threshold of one week of supply
riskStatusOneWeek(expectedBalance7Days, weightedDailyAvg) ==
    IF expectedBalance7Days.num < 0 THEN "Danger"
    ELSE IF expectedBalance7Days.num * weightedDailyAvg.den
                < weightedDailyAvg.num * 7 * expectedBalance7Days.den THEN "Warning"
    ELSE "Safe"

\* G. Status: Danger below 0, Warning below weightedDailyAvg * 14
riskStatus(expectedBalance7Days, weightedDailyAvg) ==
    IF expectedBalance7Days.num < 0 THEN "Danger"
    ELSE IF expectedBalance7Days.num * weightedDailyAvg.den
                < weightedDailyAvg.num * 14 * expectedBalance7Days.den THEN "Warning"
    ELSE "Safe"

\* every date taken for the recent ones
recent7DaysAll(dates) == dates

\* dates.slice(Math.max(0, dates.length - 7)) of the sorted distinct dates,
\* as a set: the dates with fewer than 7 later ones
recent7Days(dates) == {d \in dates : Cardinality({e \in dates : Before(d, e)}) < 7}

\* every entry given the inbound of all names
inboundOfAnyName(inboundData, name) ==
    LET total[n \in 0..Len(inboundData)] ==
            IF n = 0 THEN 0 ELSE total[n - 1] + inboundData[n].inboundQty
    IN  total[Len(inboundData)]

\* inboundMap.get(name) || 0, of the inboundMap inboundData.forEach builds
inboundOf(inboundData, name) ==
    LET total[n \in 0..Len(inboundData)] ==
            IF n = 0 THEN 0
            ELSE total[n - 1] + (IF inboundData[n].productName = name
                                 THEN inboundData[n].inboundQty ELSE 0)
    IN  total[Len(inboundData)]

\* the metrics of a group or of an item: A to G of products.map
Metrics(dailySalesMap, latestDate, recent, currentInventory, inboundQty) ==
    LET sales(d) == IF d \in DOMAIN dailySalesMap THEN dailySalesMap[d] ELSE 0
        sum[S \in SUBSET recent] ==
            IF S = {} THEN 0
            ELSE LET d == CHOOSE d \in S : TRUE IN sales(d) + sum[S \ {d}]
        prevDaySales == sales(latestDate)
        avg7Days == Ratio(sum[recent], 7)
        weightedDailyAvg == Ratio(avg7Days.num + prevDaySales * avg7Days.den, avg7Days.den * 2)
        expectedDemand7Days == Ratio(weightedDailyAvg.num * 7, weightedDailyAvg.den)
        expectedBalance7Days ==
            Ratio((currentInventory + inboundQty) * expectedDemand7Days.den - expectedDemand7Days.num,
                  expectedDemand7Days.den)
    IN  [currentInventory |-> currentInventory,
         inboundQty |-> inboundQty,
         avg7Days |-> avg7Days,
         prevDaySales |-> prevDaySales,
         weightedDailyAvg |-> weightedDailyAvg,
         expectedDemand7Days |-> expectedDemand7Days,
         expectedBalance7Days |-> expectedBalance7Days,
         status |-> riskStatus(expectedBalance7Days, weightedDailyAvg)]

\* getInventoryRiskAnalysis(records, masterData, inboundData): an entry per
\* group with an item per barcode, sorted by expectedBalance7Days; a summary
\* has no optionName, so an item is named by its barcode
getInventoryRiskAnalysis(records, masterData, inboundData) ==
    LET dates == {records[n].date : n \in DOMAIN records}
        latestDate == CHOOSE d \in dates : \A e \in dates : ~Before(d, e)
        recent == recent7Days(dates)
        products == groupProductsByName(getProductSummary(records, masterData))
        child(item) ==
            [f \in {"productName", "imageUrl", "barcode"} |->
                IF f = "imageUrl" THEN item.imageUrl ELSE item.barcode]
                @@ Metrics(item.dailySalesMap, latestDate, recent, item.coupangInventory, 0)
        risk(p) ==
            [f \in {"productName", "imageUrl", "items"} |->
                IF f = "productName" THEN p.groupName
                ELSE IF f = "imageUrl" THEN p.imageUrl
                ELSE [i \in DOMAIN p.items |-> child(p.items[i])]]
                @@ Metrics(p.dailySalesMap, latestDate, recent, p.totalCoupangInventory,
                           inboundOf(inboundData, p.groupName))
        risks == [g \in DOMAIN products |-> risk(products[g])]
        less(a, b) == a.expectedBalance7Days.num * b.expectedBalance7Days.den
                          < b.expectedBalance7Days.num * a.expectedBalance7Days.den
        place(i) == 1 + Cardinality({j \in DOMAIN risks :
                                        \/ less(risks[j], risks[i])
                                        \/ ~less(risks[i], risks[j]) /\ j < i})
    IN  IF records = <<>> THEN <<>>
        ELSE [k \in DOMAIN risks |-> risks[CHOOSE i \in DOMAIN risks : place(i) = k]]

\* parseDateLocal(dateStr) of a text of three runs of digits parted by "-",
\* "/" or ".": the day, counted from 1970-01-01, of new Date(year, month - 1,
\* day), which carries a month past December into the next year and a day
\* past the end of the month into the next month
parseDateLocal(dateStr) ==
    LET parts == DigitRuns(dateStr)
        year == DigitsToNat(parts[1])
        monthIndex == DigitsToNat(parts[2]) - 1
        day == DigitsToNat(parts[3])
    IN  DaysFromCivil(year + monthIndex \div 12, (monthIndex % 12) + 1, 1) + day - 1

\* the offset back to a Saturday
weekOffsetSaturday(dayOfWeek) == (dayOfWeek + 1) % 7

\* the offset back to the most recent Friday: Sun(0)->2 ... Fri(5)->0, Sat(6)->1
weekOffset(dayOfWeek) == (dayOfWeek + 2) % 7

\* getWeeklyComparison(records); Date.prototype.getDay of a day counted from
\* 1970-01-01, a Thursday, is (day + 4) % 7
getWeeklyComparison(records) ==
    LET toDateStr(day) == FormatDate(CivilFromDays(day))
        fmt(day) == LET dt == CivilFromDays(day) IN NatToText(dt.m) \o <<"/">> \o NatToText(dt.d)
        dates == {records[n].date : n \in DOMAIN records}
        latestDateStr == CHOOSE d \in dates : \A e \in dates : ~Before(d, e)
        currDate == parseDateLocal(latestDateStr)
        dayOfWeek == (currDate + 4) % 7
        thisWeekStart == currDate - weekOffset(dayOfWeek)
        thisWeekEnd == thisWeekStart + 6
        lastWeekStart == thisWeekStart - 7
        lastWeekEnd == lastWeekStart + 6
        within(date, start, end) == ~Before(date, toDateStr(start)) /\ ~Before(toDateStr(end), date)
        sales[n \in 0..Len(records)] ==
            IF n = 0 THEN [this |-> 0, last |-> 0]
            ELSE IF within(records[n].date, thisWeekStart, thisWeekEnd)
            THEN [sales[n - 1] EXCEPT !.this = @ + records[n].salesQty]
            ELSE IF within(records[n].date, lastWeekStart, lastWeekEnd)
            THEN [sales[n - 1] EXCEPT !.last = @ + records[n].salesQty]
            ELSE sales[n - 1]
        thisWeekSales == sales[Len(records)].this
        lastWeekSales == sales[Len(records)].last
    IN  IF records = <<>>
        THEN [thisWeekLabel |-> <<"-">>, lastWeekLabel |-> <<"-">>,
              thisWeekSales |-> 0, lastWeekSales |-> 0, growthRate |-> Ratio(0, 1)]
        ELSE [thisWeekLabel |-> fmt(thisWeekStart) \o <<"~">> \o fmt(thisWeekEnd),
              lastWeekLabel |-> fmt(lastWeekStart) \o <<"~">> \o fmt(lastWeekEnd),
              thisWeekSales |-> thisWeekSales,
              lastWeekSales |-> lastWeekSales,
              growthRate |-> IF lastWeekSales > 0
                             THEN Ratio((thisWeekSales - lastWeekSales) * 100, lastWeekSales)
                             ELSE IF thisWeekSales > 0 THEN Ratio(100, 1) ELSE Ratio(0, 1)]

\* ------------------------------------------------------------------- state
VARIABLES
    records,      \* useSalesData: the records state
    isLoading,    \* useSalesData: the isLoading state
    loadPc,       \* position of loadData: "get", "fetch", "saving", "done"
    loadStored,   \* loadData: the value DB.get resolved with
    pathIdx,      \* loadData: index into publicPaths
    store,        \* the IndexedDB object store: key -> value or Absent
    dbQueue,      \* DB requests not yet carried out; IndexedDB takes them oldest first
    lastOp,       \* history: the last handler that wrote records
    prevRecords,  \* history: records before the last addRecords
    lastBatch,    \* the batch of the last addRecords, as its caller holds it
    uploads,      \* history: the batches passed to addRecords, in order
    nClears,      \* history: number of confirmed clearData calls
    masterRecords,    \* useProductMaster: the masterRecords state
    masterOp,         \* history: the last handler that wrote masterRecords
    prevMaster,       \* history: masterRecords before the last addMasterRecords
    lastMasterBatch,  \* history: the batch of the last addMasterRecords
    nMasterUploads,   \* history: number of addMasterRecords calls
    nMasterClears,    \* history: number of confirmed clearMaster calls
    parseInput,       \* the file handed to a parser, and the browser's zone and day
    parser,           \* the parser that ran: "none", "sales", "master", "inbound"
    parseResult,      \* what the parser's promise settled with
    productList,      \* App: the product summaries of the last render
    productGroups,    \* App: the product groups of the last render
    inventoryRisks,   \* App: the inventory risks of the last render
    weeklyStats,      \* App: the weekly comparison in the stats of the last render
    rendered,         \* App: rendered with the current records, master and inbound
    inboundRecords,   \* App: the inboundRecords state
    uploader          \* DataUploader: the state of the uploader of each mode

salesVars ==
    <<records, isLoading, loadPc, loadStored, pathIdx, lastOp, prevRecords, lastBatch, uploads, nClears>>

masterVars == <<masterRecords, masterOp, prevMaster, lastMasterBatch, nMasterUploads, nMasterClears>>

parseVars == <<parseInput, parser, parseResult>>

viewVars == <<productList, productGroups, inventoryRisks, weeklyStats, rendered>>

uploadVars == <<inboundRecords, uploader>>

vars == <<salesVars, masterVars, parseVars, viewVars, uploadVars, store, dbQueue>>

\* ------------------------------------------------------- initial contents
rA1 == Rec("A", "2026-01-01", 1, 0, "n1")
rA2 == Rec("A", "2026-01-02", 2, 0, "n1")
rB1 == Rec("B", "2026-01-01", 2, 0, "n1")

\* what an earlier session left under STORAGE_KEY
InitStored == {Absent, Stored(<<rA1>>), Stored(<<rB1, rA2>>)}

\* what parseExcel returns for the file found under a public path: nothing
\* usable, or the parsed rows as they are (not merged)
PublicFiles == {<<rA1, rA1>>, <<rB1>>}

\* --------------------------------------------------------------------- DB
DBGet(key, waiter) == [op |-> "get", key |-> key, value |-> Absent, waiter |-> waiter]
DBSet(key, value, waiter) == [op |-> "set", key |-> key, value |-> Stored(value), waiter |-> waiter]
DBDelete(key) == [op |-> "delete", key |-> key, value |-> Absent, waiter |-> "none"]

\* store.put / store.delete
DBApply(st, req) ==
    IF req.op = "set" THEN [st EXCEPT ![req.key] = req.value]
    ELSE IF req.op = "delete" THEN [st EXCEPT ![req.key] = Absent]
    ELSE st

\* the master hook before any upload
MasterIdle ==
    /\ masterRecords = <<>>
    /\ masterOp = "init"
    /\ prevMaster = <<>>
    /\ lastMasterBatch = <<>>
    /\ nMasterUploads = 0
    /\ nMasterClears = 0

ParseInput(decodes, grid, zone, day) ==
    [decodes |-> decodes, rawData |-> grid, tz |-> zone, todayStr |-> day]

NoResult == [status |-> "pending", records |-> <<>>, errors |-> <<>>]

\* no file has been handed to a parser
ParseIdle ==
    /\ parseInput = ParseInput(FALSE, <<>>, 0, <<>>)
    /\ parser = "none"
    /\ parseResult = NoResult

\* nothing has been rendered
ViewIdle ==
    /\ productList = <<>>
    /\ productGroups = <<>>
    /\ inventoryRisks = <<>>
    /\ weeklyStats = getWeeklyComparison(<<>>)
    /\ rendered = FALSE

\* null, of a message an uploader does not show
Null == "null"

\* the DataUploader of each mode as mounted; parsing counts the processFile
\* calls that await their parser, timers the pending setTimeout callbacks;
\* history: started counts the processFile calls, settled tells how the last
\* parser ended
UploadIdle ==
    uploader = [mode \in {"sales", "master", "inbound"} |->
                   [isProcessing |-> FALSE, error |-> Null, successMsg |-> Null,
                    parsing |-> 0, timers |-> 0, started |-> 0, settled |-> "none"]]

Init ==
    /\ records = <<>>
    /\ isLoading = TRUE
    /\ loadPc = "get"
    /\ loadStored = Absent
    /\ pathIdx = 1
    /\ \E s \in InitStored : store = [k \in {STORAGE_KEY, MASTER_STORAGE_KEY} |-> IF k = STORAGE_KEY THEN s ELSE Absent]
    /\ dbQueue = <<DBGet(STORAGE_KEY, "load")>>
    /\ lastOp = "init"
    /\ prevRecords = <<>>
    /\ lastBatch = <<>>
    /\ uploads = <<>>
    /\ nClears = 0
    /\ MasterIdle
    /\ ParseIdle
    /\ ViewIdle
    /\ inboundRecords = <<>>
    /\ UploadIdle

\* DB.get of loadData is carried out and loadData resumes with the result:
\* if (isMounted && stored) setRecords(stored); otherwise it turns to the
\* public files.  (The hook lives in the root component, isMounted is true.)
DBGetDone ==
    /\ dbQueue # <<>>
    /\ Head(dbQueue).op = "get"
    /\ LET stored == store[Head(dbQueue).key]
       IN  /\ loadStored' = stored
           /\ IF stored # Absent
              THEN /\ records' = stored.value
                   /\ isLoading' = FALSE
                   /\ loadPc' = "done"
                   /\ lastOp' = "load"
              ELSE /\ loadPc' = "fetch"
                   /\ UNCHANGED <<records, isLoading, lastOp>>
    /\ dbQueue' = Tail(dbQueue)
    /\ UNCHANGED <<pathIdx, store, prevRecords, lastBatch, uploads, nClears>>
    /\ UNCHANGED <<masterVars, parseVars, viewVars, uploadVars>>

\* DB.set is carried out; a loadData awaiting it ends (finally: setIsLoading(false))
DBSetDone ==
    /\ dbQueue # <<>>
    /\ Head(dbQueue).op = "set"
    /\ store' = DBApply(store, Head(dbQueue))
    /\ dbQueue' = Tail(dbQueue)
    /\ IF Head(dbQueue).waiter = "load"
       THEN loadPc' = "done" /\ isLoading' = FALSE
       ELSE UNCHANGED <<loadPc, isLoading>>
    /\ UNCHANGED <<records, loadStored, pathIdx, lastOp, prevRecords, lastBatch, uploads, nClears>>
    /\ UNCHANGED <<masterVars, parseVars, viewVars, uploadVars>>

\* DB.delete is carried out
DBDeleteDone ==
    /\ dbQueue # <<>>
    /\ Head(dbQueue).op = "delete"
    /\ store' = DBApply(store, Head(dbQueue))
    /\ dbQueue' = Tail(dbQueue)
    /\ UNCHANGED <<records, isLoading, loadPc, loadStored, pathIdx, lastOp, prevRecords, lastBatch, uploads, nClears>>
    /\ UNCHANGED <<masterVars, parseVars, viewVars, uploadVars>>

\* one iteration of the publicPaths loop whose fetch fails, is not ok, throws
\* in parsing, or yields no records
LoadFetchMiss ==
    /\ loadPc = "fetch"
    /\ IF pathIdx < NumPublicPaths
       THEN /\ pathIdx' = pathIdx + 1
            /\ UNCHANGED <<loadPc, isLoading>>
       ELSE /\ loadPc' = "done"
            /\ isLoading' = FALSE
            /\ UNCHANGED pathIdx
    /\ UNCHANGED <<records, loadStored, store, dbQueue, lastOp, prevRecords, lastBatch, uploads, nClears>>
    /\ UNCHANGED <<masterVars, parseVars, viewVars, uploadVars>>

\* one iteration that finds a file with records: setRecords(result.records);
\* await DB.set(STORAGE_KEY, result.records); break
LoadFetchHit ==
    /\ loadPc = "fetch"
    /\ \E file \in PublicFiles :
          /\ records' = file
          /\ dbQueue' = Append(dbQueue, DBSet(STORAGE_KEY, file, "load"))
    /\ loadPc' = "saving"
    /\ lastOp' = "load"
    /\ UNCHANGED <<isLoading, loadStored, pathIdx, store, prevRecords, lastBatch, uploads, nClears>>
    /\ UNCHANGED <<masterVars, parseVars, viewVars, uploadVars>>

\* addRecords(newRecords): the updater of setRecords and the saveData it calls
AddRecords(newRecords) ==
    /\ Len(uploads) < MaxUploads
    /\ \E merged \in SortResults(MergeUnsorted(records, newRecords)) :
          /\ records' = merged
          /\ dbQueue' = Append(dbQueue, DBSet(STORAGE_KEY, merged, "none"))
    /\ lastOp' = "add"
    /\ prevRecords' = records
    /\ lastBatch' = BatchAfter(newRecords)
    /\ uploads' = Append(uploads, newRecords)
    /\ UNCHANGED <<isLoading, loadPc, loadStored, pathIdx, store, nClears>>
    /\ UNCHANGED <<masterVars, parseVars, viewVars>>

\* clearData: nothing happens unless the user confirms
ClearData ==
    /\ nClears < MaxClears
    /\ \E confirmed \in BOOLEAN :
          IF confirmed
          THEN /\ records' = <<>>
               /\ dbQueue' = Append(dbQueue, DBDelete(STORAGE_KEY))
               /\ lastOp' = "clear"
               /\ nClears' = nClears + 1
               /\ UNCHANGED <<isLoading, loadPc, loadStored, pathIdx, store,
                              prevRecords, lastBatch, uploads>>
               /\ UNCHANGED <<masterVars, parseVars, viewVars, uploadVars>>
          ELSE UNCHANGED vars

Upload == (\E b \in Batches(SpecRows) : AddRecords(b)) /\ UNCHANGED uploadVars

Next ==
    \/ DBGetDone
    \/ DBSetDone
    \/ DBDeleteDone
    \/ LoadFetchMiss
    \/ LoadFetchHit
    \/ Upload
    \/ ClearData

Spec == Init /\ [][Next]_vars

\* ------------------------------------------------- the merge on its own
\* Record sets a loaded hook can hold: merged sets of earlier sessions and
\* the rows of a public file as loaded.
StoredSets == {<<>>, <<rA1>>, <<rB1, rA2>>, <<rA1, rA1>>}

InitMerge ==
    /\ \E s \in StoredSets :
          /\ records = s
          /\ store = [k \in {STORAGE_KEY, MASTER_STORAGE_KEY} |-> IF k = STORAGE_KEY THEN Stored(s) ELSE Absent]
    /\ isLoading = FALSE
    /\ loadPc = "done"
    /\ loadStored = Absent
    /\ pathIdx = 1
    /\ dbQueue = <<>>
    /\ lastOp = "load"
    /\ prevRecords = <<>>
    /\ lastBatch = <<>>
    /\ uploads = <<>>
    /\ nClears = 0
    /\ MasterIdle
    /\ ParseIdle
    /\ ViewIdle
    /\ inboundRecords = <<>>
    /\ UploadIdle

\* a file is uploaded
MergeUpload == uploads = <<>> /\ (\E b \in Batches(MergeRows) : AddRecords(b)) /\ UNCHANGED uploadVars

\* the same file is uploaded again
ReUpload == uploads # <<>> /\ AddRecords(lastBatch) /\ UNCHANGED uploadVars

NextMerge == MergeUpload \/ ReUpload \/ DBSetDone

SpecMerge == InitMerge /\ [][NextMerge]_vars

\* --------------------------------------------------- the master hook
mA == Master("b1", "s1", "u1", Num(3))
mB == Master("b2", "s2", Undefined, NoNum)

\* master sets of earlier sessions
MasterStoredSets == {<<>>, <<mA>>, <<mA, mB>>}

\* addMasterRecords(newRecords): the updater and the saveMaster it calls
AddMasterRecords(newRecords) ==
    /\ nMasterUploads < MaxUploads
    /\ LET merged == MasterMerge(masterRecords, newRecords)
       IN  /\ masterRecords' = merged
           /\ dbQueue' = Append(dbQueue, DBSet(MASTER_STORAGE_KEY, merged, "none"))
    /\ masterOp' = "add"
    /\ prevMaster' = masterRecords
    /\ lastMasterBatch' = newRecords
    /\ nMasterUploads' = nMasterUploads + 1
    /\ UNCHANGED <<nMasterClears, store>>
    /\ UNCHANGED <<salesVars, parseVars, viewVars>>

MasterUpload == (\E b \in MasterBatches : AddMasterRecords(b)) /\ UNCHANGED uploadVars

\* clearMaster: nothing happens unless the user confirms
ClearMaster ==
    /\ nMasterClears < MaxClears
    /\ \E confirmed \in BOOLEAN :
          IF confirmed
          THEN /\ masterRecords' = <<>>
               /\ dbQueue' = Append(dbQueue, DBDelete(MASTER_STORAGE_KEY))
               /\ masterOp' = "clear"
               /\ nMasterClears' = nMasterClears + 1
               /\ UNCHANGED <<prevMaster, lastMasterBatch, nMasterUploads, store>>
               /\ UNCHANGED <<salesVars, parseVars, viewVars, uploadVars>>
          ELSE UNCHANGED vars

InitMaster ==
    /\ \E m \in MasterStoredSets :
          /\ masterRecords = m
          /\ store = [k \in {STORAGE_KEY, MASTER_STORAGE_KEY} |-> IF k = MASTER_STORAGE_KEY THEN Stored(m) ELSE Absent]
    /\ masterOp = "load"
    /\ prevMaster = <<>>
    /\ lastMasterBatch = <<>>
    /\ nMasterUploads = 0
    /\ nMasterClears = 0
    /\ records = <<>>
    /\ isLoading = FALSE
    /\ loadPc = "done"
    /\ loadStored = Absent
    /\ pathIdx = 1
    /\ dbQueue = <<>>
    /\ lastOp = "load"
    /\ prevRecords = <<>>
    /\ lastBatch = <<>>
    /\ uploads = <<>>
    /\ nClears = 0
    /\ ParseIdle
    /\ ViewIdle
    /\ inboundRecords = <<>>
    /\ UploadIdle

NextMaster == MasterUpload \/ ClearMaster \/ DBSetDone \/ DBDeleteDone

SpecMaster == InitMaster /\ [][NextMaster]_vars

\* --------------------------------------------------- the parsers on their own
\* rows of a decoded sheet: header rows (sales, master, inbound, date and
\* quantity only, date and a returns column, no known column, a merged cell)
\* and data rows (a YYYYMMDD number, a serial number, a barcode with a text
\* quantity, a text date, a total row, a dash, a blank row)
SheetRows ==
    {<<Text(<<"U+B0A0", "U+C9DC">>), Text(<<"U+C0C1", "U+D488", "U+BA85">>), Text(<<"U+D310", "U+B9E4", "U+C218", "U+B7C9">>)>>,
     <<Text(<<"U+BC14", "U+CF54", "U+B4DC">>), Text(<<"U+C0C1", "U+D488", "U+BA85">>), Text(<<"U+BCF8", "U+C0AC", "U+C7AC", "U+ACE0">>)>>,
     <<Text(<<"U+BC14", "U+CF54", "U+B4DC">>), Text(<<" ", "N", "a", "m", "e">>), Text(<<"U+C785", "U+ACE0", " ", "U+C218", "U+B7C9">>)>>,
     <<Text(<<"D", "a", "t", "e">>), Text(<<"Q", "t", "y">>)>>,
     <<Text(<<"U+C77C", "U+C790">>), Text(<<"U+BC18", "U+D488", "U+C218", "U+B7C9">>)>>,
     <<Text(<<"m", "e", "m", "o">>)>>,
     <<Text(<<"U+BC14", "U+CF54", "U+B4DC">>), Empty, Text(<<"U+C0C1", "U+D488", "U+BA85">>)>>,
     <<Number(Whole(20260105)), Text(<<"P", "1">>), Number(Whole(3))>>,
     <<Number(Whole(45000)), Text(<<"P", "1", " ">>), Number(Whole(-2))>>,
     <<Text(<<"8", "8", "0", "1">>), Text(<<"P", "2">>), Text(<<"1", ",", "0", "0", "0">>)>>,
     <<Text(<<"2", "0", "2", "6", "/", "1", "/", "5">>), Text(<<"P", "2">>), Text(<<"5", "e", "a">>)>>,
     <<Text(<<"U+D569", "U+ACC4">>), Empty, Number(Whole(9))>>,
     <<Text(<<"-">>), Text(<<"P", "3">>), Number(Dec(15, 1))>>,
     <<>>}

\* the grids sheet_to_json(worksheet, {header: 1}) can give
Grids == UNION {[1..n -> SheetRows] : n \in 0..MaxRows}

\* minutes east of UTC of the browser's time zone
TimeZones == {540, -300}

\* an uploaded file and the browser's zone and day: a file that read() cannot
\* decode, or one with a first sheet
ParseInputs ==
    {ParseInput(TRUE, g, z, <<"2", "0", "2", "6", "-", "1", "1", "-", "0", "4">>) : g \in Grids, z \in TimeZones}
        \cup {ParseInput(FALSE, <<>>, z, <<"2", "0", "2", "6", "-", "1", "1", "-", "0", "4">>) : z \in TimeZones}

InitParse ==
    /\ parseInput \in ParseInputs
    /\ parser = "none"
    /\ parseResult = NoResult
    /\ records = <<>>
    /\ isLoading = FALSE
    /\ loadPc = "done"
    /\ loadStored = Absent
    /\ pathIdx = 1
    /\ store = [k \in {STORAGE_KEY, MASTER_STORAGE_KEY} |-> Absent]
    /\ dbQueue = <<>>
    /\ lastOp = "load"
    /\ prevRecords = <<>>
    /\ lastBatch = <<>>
    /\ uploads = <<>>
    /\ nClears = 0
    /\ MasterIdle
    /\ ViewIdle
    /\ inboundRecords = <<>>
    /\ UploadIdle

\* parseExcel(file): the promise settles
ParseExcel ==
    /\ parser = "none"
    /\ parser' = "sales"
    /\ parseResult' = IF parseInput.decodes
                      THEN parseExcel(parseInput.rawData, parseInput.todayStr, parseInput.tz)
                      ELSE Rejected
    /\ UNCHANGED <<parseInput, salesVars, masterVars, viewVars, uploadVars, store, dbQueue>>

\* parseProductMaster(file): the promise settles
ParseProductMaster ==
    /\ parser = "none"
    /\ parser' = "master"
    /\ parseResult' = IF parseInput.decodes THEN parseProductMaster(parseInput.rawData) ELSE Rejected
    /\ UNCHANGED <<parseInput, salesVars, masterVars, viewVars, uploadVars, store, dbQueue>>

\* parseInboundData(file): the promise settles
ParseInboundData ==
    /\ parser = "none"
    /\ parser' = "inbound"
    /\ parseResult' = IF parseInput.decodes THEN parseInboundData(parseInput.rawData) ELSE Rejected
    /\ UNCHANGED <<parseInput, salesVars, masterVars, viewVars, uploadVars, store, dbQueue>>

NextParse == ParseExcel \/ ParseProductMaster \/ ParseInboundData

SpecParse == InitParse /\ [][NextParse]_vars

\* ------------------------------------------------ one data row under a header
\* header rows: date, name and sales; barcode, name and a generic quantity;
\* date and quantity only; date and a returns column only; a returns column
\* before a generic quantity; only
\* excluded quantity columns; an order date, a SKU column and a paid quantity;
\* no known column
CellHeaders ==
    {<<Text(<<"U+B0A0", "U+C9DC">>), Text(<<"U+C0C1", "U+D488", "U+BA85">>), Text(<<"U+D310", "U+B9E4", "U+C218", "U+B7C9">>)>>,
     <<Text(<<"U+BC14", "U+CF54", "U+B4DC">>), Text(<<"U+C0C1", "U+D488", "U+BA85">>), Text(<<"U+C218", "U+B7C9">>)>>,
     <<Text(<<"D", "a", "t", "e">>), Text(<<"Q", "t", "y">>)>>,
     <<Text(<<"U+C77C", "U+C790">>), Text(<<"U+BC18", "U+D488", "U+C218", "U+B7C9">>)>>,
     <<Text(<<"U+C77C", "U+C790">>), Text(<<"U+C0C1", "U+D488", "U+BA85">>), Text(<<"U+BC18", "U+D488", "U+C218", "U+B7C9">>), Text(<<"U+C218", "U+B7C9">>)>>,
     <<Text(<<"U+C77C", "U+C790">>), Text(<<"U+C0C1", "U+D488", "U+BA85">>), Text(<<"U+BC18", "U+D488", " ", "U+CD9C", "U+ACE0", "U+B7C9">>), Text(<<"U+C785", "U+ACE0", " ", "Q", "u", "a", "n", "t", "i", "t", "y">>)>>,
     <<Text(<<"U+C8FC", "U+BB38", "U+C77C">>), Text(<<"S", "K", "U">>), Text(<<"U+ACB0", "U+C81C", " ", "U+C218", "U+B7C9">>)>>,
     <<Text(<<"m", "e", "m", "o">>)>>}

\* data rows: a first cell (a date in its forms, eight digits that name no
\* date, numbers around the serial range, a barcode, a total), a name cell, a quantity cell, and either
\* nothing more or cells up to column K with values in columns D, I and K
CellRows ==
    {<<first, name, qty>> \o rest :
        first \in {Number(Whole(20260105)), Number(Whole(20261345)), Text(<<"2", "0", "2", "6", "-", "0", "1", "-", "0", "5">>), Text(<<"2", "0", "2", "6", "/", "1", "/", "5">>),
                   Text(<<"1", "9", "9", "9", "-", "1", "2", "-", "3", "1">>), Text(<<"a", "b", "c">>), Text(<<" ", "8", "8", "0", "1", " ">>), Text(<<"U+D569", "U+ACC4">>),
                   Number(Whole(0)), Number(Whole(35000)), Number(Whole(35001)),
                   Number(Whole(45000)), Number(Dec(450005, 1)), Number(Whole(59999)),
                   Number(Whole(60000)), Empty},
        name \in {Text(<<"P", "1">>), Text(<<" ", "P", "2", " ">>), Text(<<"S", "u", "b", " ", "T", "o", "t", "a", "l">>), Empty},
        qty \in {Number(Whole(3)), Number(Whole(-2)), Number(Dec(15, 1)), Text(<<"1", ",", "0", "0", "0">>),
                 Text(<<"5", "e", "a">>), Text(<<"a", "b", "c">>), Empty},
        rest \in {<<>>, <<Number(Whole(7)), Empty, Empty, Empty, Empty, Text(<<" ", "7", "7", " ">>), Empty,
                         Text(<<"9", "9">>)>>}}

\* a decoded sheet of a header row and one data row
InitCells ==
    /\ parseInput \in {ParseInput(TRUE, <<h, r>>, z, <<"2", "0", "2", "6", "-", "1", "1", "-", "0", "4">>) :
                          h \in CellHeaders, r \in CellRows, z \in TimeZones}
    /\ parser = "none"
    /\ parseResult = NoResult
    /\ records = <<>>
    /\ isLoading = FALSE
    /\ loadPc = "done"
    /\ loadStored = Absent
    /\ pathIdx = 1
    /\ store = [k \in {STORAGE_KEY, MASTER_STORAGE_KEY} |-> Absent]
    /\ dbQueue = <<>>
    /\ lastOp = "load"
    /\ prevRecords = <<>>
    /\ lastBatch = <<>>
    /\ uploads = <<>>
    /\ nClears = 0
    /\ MasterIdle
    /\ ViewIdle
    /\ inboundRecords = <<>>
    /\ UploadIdle

SpecCells == InitCells /\ [][NextParse]_vars

\* --------------------------------------------------------- the product view
\* records and master as loaded: sales barcodes that differ by white space
\* only, a barcode the master lacks, two dates; master barcodes with white
\* space, one without sales
InitView ==
    /\ records \in {<<>>} \cup
          Batches({[productId |-> "p1", skuId |-> "k1", productName |-> "n1", barcode |-> b,
                    date |-> d, salesQty |-> q[1], inventoryQty |-> q[2]] :
                      b \in {<<"1">>, <<" ", "1", " ">>, <<"2">>}, d \in {<<"2", "0", "2", "6", "-", "0", "1", "-", "0", "1">>, <<"2", "0", "2", "6", "-", "0", "1", "-", "0", "2">>},
                      q \in {<<1, 1>>, <<2, 0>>}})
    /\ masterRecords \in
          UNION {[1..n -> {Master(b, "s1", Undefined, hq) : b \in {<<" ", "1", " ">>, <<"3">>}, hq \in {NoNum, Num(3)}}] :
                    n \in 0..MaxBatch}
    /\ isLoading = FALSE
    /\ loadPc = "done"
    /\ loadStored = Absent
    /\ pathIdx = 1
    /\ store = [k \in {STORAGE_KEY, MASTER_STORAGE_KEY} |-> Absent]
    /\ dbQueue = <<>>
    /\ lastOp = "load"
    /\ prevRecords = <<>>
    /\ lastBatch = <<>>
    /\ uploads = <<>>
    /\ nClears = 0
    /\ masterOp = "init"
    /\ prevMaster = <<>>
    /\ lastMasterBatch = <<>>
    /\ nMasterUploads = 0
    /\ nMasterClears = 0
    /\ ParseIdle
    /\ ViewIdle
    /\ inboundRecords = <<>>
    /\ UploadIdle

\* App renders: the useMemo values of stats, productList, productGroups and
\* inventoryRisks
Render ==
    /\ ~rendered
    /\ weeklyStats' = getWeeklyComparison(records)
    /\ productList' = getProductSummary(records, masterRecords)
    /\ productGroups' = groupProductsByName(productList')
    /\ inventoryRisks' = getInventoryRiskAnalysis(records, masterRecords, inboundRecords)
    /\ rendered' = TRUE
    /\ UNCHANGED <<salesVars, masterVars, parseVars, uploadVars, store, dbQueue>>

NextView == Render

SpecView == InitView /\ [][NextView]_vars

\* ------------------------------------------------------ the inventory risks
\* sales of one barcode on each of up to MaxDays consecutive days from
\* Tuesday 2026-01-27, its inventory on the latest day, a second barcode of the same or of another
\* name sold on the latest day, and inbound records of the two names, one of
\* them under the barcode of the other name
InitRisk ==
    /\ \E n \in 1..MaxDays, inventory \in {0, 10, 51} :
       \E sold \in [1..n -> {0, 3}], second \in {<<>>, <<"n1">>, <<"n2">>} :
          LET day(k) == FormatDate(CivilFromDays(DaysFromCivil(2026, 1, 27) + k - 1))
              sale(barcode, name, k, qty, inv) ==
                  [productId |-> "p1", skuId |-> "k1", productName |-> name, barcode |-> barcode,
                   date |-> day(k), salesQty |-> qty, inventoryQty |-> inv]
          IN  records = [k \in 1..n |-> sale(<<"1">>, "n1", k, sold[k], IF k = n THEN inventory ELSE 7)]
                           \o [i \in DOMAIN second |-> sale(<<"2">>, second[i], n, 5, 10)]
    /\ LET inbound(barcode, name) == [barcode |-> barcode, productName |-> name, inboundQty |-> 8]
       IN  inboundRecords \in {<<>>,
                                <<inbound(<<"1">>, "n1")>>,
                                <<inbound(<<"2">>, "n2")>>,
                                <<inbound(<<"1">>, "n1"), inbound(<<"2">>, "n1")>>,
                                <<inbound(<<"2">>, "n2"), inbound(<<"2">>, "n1")>>}
    /\ UploadIdle
    /\ isLoading = FALSE
    /\ loadPc = "done"
    /\ loadStored = Absent
    /\ pathIdx = 1
    /\ store = [k \in {STORAGE_KEY, MASTER_STORAGE_KEY} |-> Absent]
    /\ dbQueue = <<>>
    /\ lastOp = "load"
    /\ prevRecords = <<>>
    /\ lastBatch = <<>>
    /\ uploads = <<>>
    /\ nClears = 0
    /\ MasterIdle
    /\ ParseIdle
    /\ ViewIdle

SpecRisk == InitRisk /\ [][NextView]_vars

\* ------------------------------------------------------------ the uploaders
\* a loaded App: sales and master sets of an earlier session, in memory and in
\* the store, and inbound records of an earlier upload
InitUpload ==
    /\ \E s \in {<<>>, <<rA1>>}, m \in {<<>>, <<mA>>} :
          /\ records = s
          /\ masterRecords = m
          /\ store = [k \in {STORAGE_KEY, MASTER_STORAGE_KEY} |->
                         IF k = STORAGE_KEY THEN Stored(s) ELSE Stored(m)]
    /\ inboundRecords \in {<<>>, <<[barcode |-> "b1", productName |-> "n1", inboundQty |-> 8]>>}
    /\ UploadIdle
    /\ isLoading = FALSE
    /\ loadPc = "done"
    /\ loadStored = Absent
    /\ pathIdx = 1
    /\ dbQueue = <<>>
    /\ lastOp = "load"
    /\ prevRecords = <<>>
    /\ lastBatch = <<>>
    /\ uploads = <<>>
    /\ nClears = 0
    /\ masterOp = "load"
    /\ prevMaster = <<>>
    /\ lastMasterBatch = <<>>
    /\ nMasterUploads = 0
    /\ nMasterClears = 0
    /\ ParseIdle
    /\ ViewIdle

\* processFile(file) up to its await: the flags are reset; a file of another
\* extension ends it with the message that only .xlsx, .xls and .csv files
\* are taken
ProcessFile(mode) ==
    /\ uploader["sales"].started + uploader["master"].started + uploader["inbound"].started
          < MaxUploads
    /\ \E extension \in {"xlsx", "xls", "csv", "pdf"} :
          uploader' = [uploader EXCEPT ![mode] =
              IF extension \in {"xlsx", "xls", "csv"}
              THEN [@ EXCEPT !.isProcessing = TRUE, !.error = Null, !.successMsg = Null,
                             !.parsing = @ + 1, !.started = @ + 1]
              ELSE [@ EXCEPT !.isProcessing = FALSE, !.successMsg = Null,
                             !.error = "only .xlsx, .xls or .csv files", !.started = @ + 1]]
    /\ UNCHANGED <<salesVars, masterVars, parseVars, viewVars, inboundRecords, store, dbQueue>>

\* records are handed on when the parser resolved without an error: every
\* resolved result is handed on
HandedOnWhenResolved(result) == result.status = "resolved"

\* result.errors.length > 0 is false of a result the parser resolved with:
\* onUploadSuccess is called
HandedOn(result) == result.status = "resolved" /\ result.errors = <<>>

\* processFile(file) from the await on: the parser of the mode has settled,
\* with records, with errors, or by throwing; the records go to the handler
\* App mounted the uploader with; finally setIsProcessing(false)
ProcessFileDone(mode) ==
    /\ uploader[mode].parsing > 0
    /\ \E result \in
          {Rejected, Resolved(<<>>, <<"e1">>), Resolved(<<>>, <<"e1", "e2">>)}
             \cup {Resolved(b, <<>>) :
                     b \in IF mode = "sales" THEN {<<rB1>>, <<rA2, rA2>>}
                           ELSE IF mode = "master" THEN {<<mB>>, <<mA, mB>>}
                           ELSE {<<[barcode |-> "b2", productName |-> "n2", inboundQty |-> 5]>>}} :
          LET joined[n \in 1..Len(result.errors)] ==
                  IF n = 1 THEN result.errors[1] ELSE joined[n - 1] \o ", " \o result.errors[n]
              done == [uploader[mode] EXCEPT
                          !.parsing = @ - 1, !.isProcessing = FALSE,
                          !.settled = IF result.status = "rejected" THEN "thrown"
                                      ELSE IF result.errors # <<>> THEN "errors" ELSE "records"]
          IN  IF HandedOn(result)
              THEN /\ uploader' = [uploader EXCEPT ![mode] =
                          [done EXCEPT !.successMsg = "success: " \o ToString(Len(result.records)),
                                       !.timers = @ + 1]]
                   /\ IF mode = "sales"
                      THEN AddRecords(result.records) /\ UNCHANGED inboundRecords
                      ELSE IF mode = "master"
                      THEN AddMasterRecords(result.records) /\ UNCHANGED inboundRecords
                      ELSE /\ inboundRecords' = result.records
                           /\ UNCHANGED <<salesVars, masterVars, parseVars, viewVars, store, dbQueue>>
              ELSE /\ uploader' = [uploader EXCEPT ![mode] =
                          IF result.status = "resolved"
                          THEN [done EXCEPT !.error = joined[Len(result.errors)]]
                          ELSE [done EXCEPT !.error = "file processing error"]]
                   /\ UNCHANGED <<salesVars, masterVars, parseVars, viewVars, inboundRecords,
                                  store, dbQueue>>

\* setTimeout(() => setSuccessMsg(null), 3000) fires
SuccessTimeout(mode) ==
    /\ uploader[mode].timers > 0
    /\ uploader' = [uploader EXCEPT ![mode] = [@ EXCEPT !.successMsg = Null, !.timers = @ - 1]]
    /\ UNCHANGED <<salesVars, masterVars, parseVars, viewVars, inboundRecords, store, dbQueue>>

NextUpload ==
    \/ \E mode \in DOMAIN uploader : ProcessFile(mode)
    \/ \E mode \in DOMAIN uploader : ProcessFileDone(mode)
    \/ \E mode \in DOMAIN uploader : SuccessTimeout(mode)
    \/ DBSetDone

SpecUpload == InitUpload /\ [][NextUpload]_vars

\* ------------------------------------------------------------ properties
RECURSIVE SumSales(_, _)
SumSales(rows, k) ==
    IF rows = <<>> THEN 0
    ELSE (IF Key(Head(rows)) = k THEN Head(rows).salesQty ELSE 0) + SumSales(Tail(rows), k)

RECURSIVE SumInventory(_, _)
SumInventory(rows, k) ==
    IF rows = <<>> THEN 0
    ELSE (IF Key(Head(rows)) = k THEN Head(rows).inventoryQty ELSE 0) + SumInventory(Tail(rows), k)

WithKey(recs, k) == {i \in DOMAIN recs : Key(recs[i]) = k}

\* the keys of a stored value, which may be absent
StoredKeys(v) == KeysOf(v.value)

\* C1: after addRecords the record set holds exactly one record for every key
\* of the batch, and its salesQty and inventoryQty are the sums of those
\* fields over the rows of the batch with that key.
IntraBatchAggregation ==
    lastOp = "add" =>
        \A k \in KeysOf(lastBatch) :
            /\ Cardinality(WithKey(records, k)) = 1
            /\ \A i \in WithKey(records, k) :
                  /\ records[i].salesQty = SumSales(lastBatch, k)
                  /\ records[i].inventoryQty = SumInventory(lastBatch, k)

\* two rows of one batch with the same key have been merged into one record
IntraBatchWitness ==
    /\ lastOp = "add"
    /\ Len(lastBatch) = 2
    /\ Key(lastBatch[1]) = Key(lastBatch[2])
    /\ \E i \in DOMAIN records :
          /\ Key(records[i]) = Key(lastBatch[1])
          /\ records[i].salesQty = lastBatch[1].salesQty + lastBatch[2].salesQty

\* C2: a key that was stored and is in the batch carries the batch's
\* quantities after addRecords; the stored quantities are not added.
InterBatchOverwrite ==
    lastOp = "add" =>
        \A k \in KeysOf(prevRecords) \cap KeysOf(lastBatch) :
            \A i \in WithKey(records, k) :
                /\ records[i].salesQty = SumSales(lastBatch, k)
                /\ records[i].inventoryQty = SumInventory(lastBatch, k)

\* a stored key with a positive quantity has been uploaded again
InterBatchWitness ==
    /\ lastOp = "add"
    /\ \E j \in DOMAIN prevRecords, i \in DOMAIN records :
          /\ Key(prevRecords[j]) = Key(records[i])
          /\ Key(records[i]) \in KeysOf(lastBatch)
          /\ prevRecords[j].salesQty > 0
          /\ records[i].salesQty # prevRecords[j].salesQty
          /\ records[i].salesQty = SumSales(lastBatch, Key(records[i]))

\* C3: uploading the batch of the last addRecords once more leaves the record
\* set as it is (same keys, same quantities for every key).
ReUploadIdempotent ==
    [][(lastOp = "add" /\ uploads' = Append(uploads, lastBatch))
         => Range(records') = Range(records)]_vars

\* a batch that changed a stored set has been uploaded twice in a row
ReUploadWitness ==
    /\ lastOp = "add"
    /\ Len(uploads) >= 2
    /\ uploads[Len(uploads)] = uploads[Len(uploads) - 1]
    /\ Range(records) = Range(prevRecords)
    /\ \E i \in DOMAIN records : records[i] \in Range(lastBatch) /\ records[i].salesQty > 0

\* C4: no two records of the set share (productId, date).
UniqueKeys ==
    \A i, j \in DOMAIN records : Key(records[i]) = Key(records[j]) => i = j

\* C5: once two uploads have been merged and every request to the store has
\* been carried out, no key of either batch is missing from the record set or
\* from the store, and the store holds the record set.
NoLostUpdate ==
    (Len(uploads) = 2 /\ nClears = 0 /\ dbQueue = <<>> /\ loadPc = "done") =>
        /\ \A n \in DOMAIN uploads :
              /\ KeysOf(uploads[n]) \subseteq KeysOf(records)
              /\ KeysOf(uploads[n]) \subseteq StoredKeys(store[STORAGE_KEY])
        /\ store[STORAGE_KEY] = Stored(records)

\* C6: a key of the persisted set stays in the persisted set in every step
\* but the one that carries out the delete of clearData.
StoredKeysKept ==
    [][(dbQueue # <<>> /\ Head(dbQueue).op = "delete")
         \/ StoredKeys(store[STORAGE_KEY]) \subseteq StoredKeys(store'[STORAGE_KEY])]_vars

\* C7: when clearData was the last user operation and its delete and all
\* requests before it have been carried out, the record set is empty and
\* nothing is stored.
ClearEmpties ==
    (nClears > 0 /\ uploads = <<>> /\ dbQueue = <<>>) =>
        /\ records = <<>>
        /\ store[STORAGE_KEY] = Absent

\* the order of the date strings
DateRank(d) == IF d = "2026-01-01" THEN 1 ELSE IF d = "2026-01-02" THEN 2 ELSE 3

\* C8: after addRecords the record set is in non-decreasing date order.
SortedByDate ==
    lastOp = "add" =>
        \A i, j \in DOMAIN records :
            i < j => DateRank(records[i].date) <= DateRank(records[j].date)

\* the fields a ProductMaster may leave out
OptionalText == {"category", "imageUrl"}

OptionalNumber == {"costPrice", "hqInventory"}

\* the record provides a value for the field
Provides(r, k) ==
    IF k \in OptionalNumber THEN r[k].def
    ELSE IF k \in OptionalText THEN r[k] # Undefined
    ELSE TRUE

\* field by field: the new record's value where it provides one, else the old one
FieldOverwrite(old, new) ==
    [k \in DOMAIN old |-> IF Provides(new, k) THEN new[k] ELSE old[k]]

RECURSIVE FieldOverwriteAll(_, _, _)
FieldOverwriteAll(old, rows, b) ==
    IF rows = <<>> THEN old
    ELSE FieldOverwriteAll(IF Head(rows).barcode = b THEN FieldOverwrite(old, Head(rows)) ELSE old,
                           Tail(rows), b)

\* C9: after addMasterRecords there is one record for every barcode; a record
\* whose barcode was stored and is in the batch has, field by field, the new
\* value where the batch provides one and the stored value otherwise; a record
\* whose barcode is not in the batch is the stored one.
MasterFieldOverwrite ==
    masterOp = "add" =>
        /\ \A i, j \in DOMAIN masterRecords :
              masterRecords[i].barcode = masterRecords[j].barcode => i = j
        /\ MasterBarcodes(masterRecords) = MasterBarcodes(prevMaster) \cup MasterBarcodes(lastMasterBatch)
        /\ \A i \in DOMAIN masterRecords :
              LET r == masterRecords[i]
              IN  IF r.barcode \notin MasterBarcodes(lastMasterBatch)
                  THEN r \in Range(prevMaster)
                  ELSE r.barcode \in MasterBarcodes(prevMaster) =>
                          r = FieldOverwriteAll(MasterGet(prevMaster, r.barcode),
                                                lastMasterBatch, r.barcode)

\* C10: whichever of parseExcel, parseProductMaster and parseInboundData ran,
\* and whatever the grid, a result with a non-empty error list has an empty
\* record list.
ErrorsMeanNoRecords ==
    (parser # "none" /\ parseResult.status = "resolved" /\ parseResult.errors # <<>>)
        => parseResult.records = <<>>

\* a parser has found no usable column in a grid that has a filled data row
\* under its first row, and returned the error with no record
ErrorsMeanNoRecordsWitness ==
    /\ parser # "none"
    /\ \E i \in 2..Len(parseInput.rawData) :
          /\ parseInput.rawData[i] # <<>>
          /\ \A c \in DOMAIN parseInput.rawData[i] : Truthy(parseInput.rawData[i][c])
    /\ parseResult.status = "resolved"
    /\ parseResult.errors # <<>>
    /\ parseResult.records = <<>>

\* the columns parseExcel resolved for the sheet it was given
ResolvedColumns == SalesColumns(parseInput.rawData)

\* parseExcel has settled on a sheet of at least two rows
SalesParsed == parser = "sales" /\ parseInput.decodes /\ Len(parseInput.rawData) >= 2

\* the promise resolved with an error and no record
FailedWithError ==
    parseResult.status = "resolved" /\ parseResult.errors # <<>> /\ parseResult.records = <<>>

\* C11 as stated: sales ingestion fails with an error and no record if neither
\* a name nor a barcode column is resolved, and also if the date and the
\* quantity column are both unresolved; otherwise it goes on to the rows.
RequiredRolesAsStated ==
    SalesParsed =>
        LET cols == ResolvedColumns
        IN  IF \/ cols.nameIdx = -1 /\ cols.barcodeIdx = -1
               \/ cols.dateIdx = -1 /\ cols.salesIdx = -1
            THEN FailedWithError
            ELSE parseResult.status = "resolved" /\ parseResult.errors = <<>>

\* C11, amended: sales ingestion fails with an error and no record exactly
\* when neither a name nor a barcode column is resolved and, besides, the date
\* column or the quantity column is unresolved; otherwise it goes on to the
\* rows without an error.
RequiredRoles ==
    SalesParsed =>
        LET cols == ResolvedColumns
        IN  IF /\ cols.nameIdx = -1 /\ cols.barcodeIdx = -1
               /\ (cols.dateIdx = -1 \/ cols.salesIdx = -1)
            THEN FailedWithError
            ELSE parseResult.status = "resolved" /\ parseResult.errors = <<>>

\* a sheet with a date and a quantity column, but neither name nor barcode,
\* has given records
RequiredRolesWitness ==
    /\ SalesParsed
    /\ LET cols == ResolvedColumns
       IN  /\ cols.nameIdx = -1 /\ cols.barcodeIdx = -1
           /\ cols.dateIdx # -1 /\ cols.salesIdx # -1
    /\ parseResult.status = "resolved"
    /\ parseResult.errors = <<>>
    /\ parseResult.records # <<>>

\* C12: on every decoded grid each of the three parsers settles with a
\* (records, errors) result, never with a rejection; a missing required
\* column is an error with no record.
NeverThrows ==
    (parser # "none" /\ parseInput.decodes) => parseResult.status = "resolved"

\* the one data row below the header in row 0, and its date cell: that of the
\* date column, else of column A
DataRow == parseInput.rawData[2]

DateCell ==
    LET dateIdx == ResolvedColumns.dateIdx
    IN  At(DataRow, IF dateIdx # -1 THEN dateIdx ELSE 0)

\* the digits of a cell's text
DigitsOf(cell) == SelectSeq(ToStr(cell), IsDigit)

\* sales ingestion of a header row and one data row has pushed a record
OneRowRead ==
    /\ SalesParsed
    /\ Len(parseInput.rawData) = 2
    /\ parseResult.status = "resolved"
    /\ Len(parseResult.records) = 1
    /\ headerRowIndexOf(parseInput.rawData) = 0

\* C13: a date cell, text or number, whose digits are exactly 8 and begin
\* with "20" gives the date YYYY-MM-DD of those digits, whatever the serial
\* rule or generic date parsing would make of the cell.
YYYYMMDDFirst ==
    OneRowRead =>
        LET digits == DigitsOf(DateCell)
            date == parseResult.records[1].date
        IN  (Len(digits) = 8 /\ SubSeq(digits, 1, 2) = <<"2", "0">>)
            => /\ Len(date) = 10
               /\ date[5] = "-" /\ date[8] = "-"
               /\ SelectSeq(date, IsDigit) = digits

\* the text 2026-01-05 read west of Greenwich, where new Date(text) is the
\* evening of January 4, has given 2026-01-05
YYYYMMDDFirstWitness ==
    /\ OneRowRead
    /\ parseInput.tz < 0
    /\ DateCell = Text(<<"2", "0", "2", "6", "-", "0", "1", "-", "0", "5">>)
    /\ FormatDate(NewDate(DateCell, parseInput.tz)) = <<"2", "0", "2", "6", "-", "0", "1", "-", "0", "4">>
    /\ parseResult.records[1].date = <<"2", "0", "2", "6", "-", "0", "1", "-", "0", "5">>

\* the calendar date of a spreadsheet day count: day 0 is 1899-12-30, day
\* 25569 is 1970-01-01
DayCountDate(v) == FormatDate(CivilFromDays(v.m \div Pow10(v.e) - 25569))

\* C14: a numeric date cell n with 35000 <= n < 60000 that the 8-digit rule
\* does not catch is converted as a day count with day 0 = 1899-12-30; a
\* number outside that range is not treated as a day count.
SerialRange ==
    OneRowRead =>
        LET cell == DateCell
        IN  (cell.t = "num" /\ Len(DigitsOf(cell)) # 8)
            => IF cell.n.m >= 35000 * Pow10(cell.n.e) /\ cell.n.m < 60000 * Pow10(cell.n.e)
               THEN parseResult.records[1].date = DayCountDate(cell.n)
               ELSE parseResult.records[1].date # DayCountDate(cell.n)

\* the cell matches one of the three date rules: 8 digits that begin with
\* "20", a number in [35000, 60000), or a date that generic parsing accepts
\* with a year in (2000, 2100)
MatchesDateRule(cell, tz) ==
    \/ LET digits == DigitsOf(cell) IN Len(digits) = 8 /\ SubSeq(digits, 1, 2) = <<"2", "0">>
    \/ /\ cell.t = "num"
       /\ cell.n.m >= 35000 * Pow10(cell.n.e)
       /\ cell.n.m < 60000 * Pow10(cell.n.e)
    \/ LET dt == NewDate(cell, tz) IN dt.valid /\ dt.y > 2000 /\ dt.y < 2100

\* the data row is not skipped: it has cells, its name cell (that of the name
\* column, else of the barcode column, else the text Unknown) is not empty,
\* and neither its first cell nor its name cell matches the total pattern
RowIsRead ==
    LET cols == ResolvedColumns
        name == IF cols.nameIdx # -1 THEN At(DataRow, cols.nameIdx)
                ELSE IF cols.barcodeIdx # -1 THEN At(DataRow, cols.barcodeIdx)
                ELSE Text(<<"U", "n", "k", "n", "o", "w", "n">>)
    IN  /\ DataRow # <<>>
        /\ Truthy(name)
        /\ ~Test(Re.total, ToStr(name))
        /\ ~(Truthy(At(DataRow, 0)) /\ Test(Re.total, ToStr(At(DataRow, 0))))

\* a sheet of a header row with the required columns and one data row
OneRowSheet ==
    /\ SalesParsed
    /\ Len(parseInput.rawData) = 2
    /\ headerRowIndexOf(parseInput.rawData) = 0
    /\ LET cols == ResolvedColumns
       IN  ~(/\ cols.nameIdx = -1 /\ cols.barcodeIdx = -1
             /\ (cols.dateIdx = -1 \/ cols.salesIdx = -1))

\* C15: a sales data row that is not skipped and whose date cell is empty or
\* matches none of the three date rules still gives a record, dated today,
\* and no error.
LenientDateFallback ==
    (OneRowSheet /\ RowIsRead
        /\ LET cell == DateCell IN ~Truthy(cell) \/ ~MatchesDateRule(cell, parseInput.tz))
    => /\ parseResult.status = "resolved"
       /\ parseResult.errors = <<>>
       /\ Len(parseResult.records) = 1
       /\ parseResult.records[1].date = parseInput.todayStr

\* a row whose date cell is a text that is no date has given a record dated
\* today
LenientDateFallbackWitness ==
    /\ OneRowSheet /\ RowIsRead
    /\ DateCell = Text(<<"a", "b", "c">>)
    /\ parseResult.errors = <<>>
    /\ Len(parseResult.records) = 1
    /\ parseResult.records[1].date = parseInput.todayStr

\* the headers parseExcel works on, as texts
SalesHeaderTexts ==
    LET headers == HeadersOf(parseInput.rawData[headerRowIndexOf(parseInput.rawData) + 1])
    IN  [i \in DOMAIN headers |-> ToStr(headers[i])]

\* the header matches one of the three tiers of sales quantity keywords
QuantityLike(h) == \E k \in DOMAIN Re.sales : Test(Re.sales[k], h)

\* the header matches the return / inbound / stock / order-placement pattern
Excluded(h) == Test(Re.invalidSales, h)

\* C16: the column resolved as the sales quantity never has a header that
\* matches the exclusion pattern, and when every quantity-like column is
\* excluded the sales quantity stays unresolved (and reads as 0).
SalesColumnNeverExcluded ==
    SalesParsed =>
        LET texts == SalesHeaderTexts
            salesIdx == ResolvedColumns.salesIdx
            excluded == {i \in DOMAIN texts : Excluded(texts[i])}
            quantity == {i \in DOMAIN texts : QuantityLike(texts[i])}
        IN  /\ salesIdx # -1 => salesIdx + 1 \notin excluded
            /\ quantity \subseteq excluded
               => /\ salesIdx = -1
                  /\ \A i \in DOMAIN parseResult.records :
                        parseResult.records[i].salesQty = Whole(0)

\* a returns column stands before the column taken for the sales quantity,
\* and the record has the quantity of the latter
SalesColumnNeverExcludedWitness ==
    /\ OneRowRead
    /\ LET texts == SalesHeaderTexts
           salesIdx == ResolvedColumns.salesIdx
           excluded == {i \in DOMAIN texts : Excluded(texts[i])}
           quantity == {i \in DOMAIN texts : QuantityLike(texts[i])}
       IN  /\ salesIdx # -1
           /\ \E i \in quantity \cap excluded : i <= salesIdx
           /\ Truthy(At(DataRow, salesIdx))
           /\ parseResult.records[1].salesQty = At(DataRow, salesIdx).n

\* C17: every record sales ingestion produces has a salesQty and an
\* inventoryQty that are non-negative integers, whatever the raw cells hold.
QuantitiesAreNaturals ==
    (parser = "sales" /\ parseResult.status = "resolved")
    => \A i \in DOMAIN parseResult.records :
          /\ parseResult.records[i].salesQty.e = 0
          /\ parseResult.records[i].salesQty.m >= 0
          /\ parseResult.records[i].inventoryQty.e = 0
          /\ parseResult.records[i].inventoryQty.m >= 0

\* the barcode column parseProductMaster resolved (from 0)
MasterBarcodeIdx == FirstHit(MasterScans(HeadersOf(parseInput.rawData[1])).barcode)

\* master ingestion of a header row and one data row has pushed a product
OneMasterRowRead ==
    /\ parser = "master" /\ parseInput.decodes
    /\ Len(parseInput.rawData) = 2
    /\ parseResult.status = "resolved"
    /\ Len(parseResult.records) = 1

\* C18 as stated: when a header was resolved for the barcode, the record's
\* barcode is the trimmed value of that column in its row, in sales and in
\* master ingestion; the fixed positional column is not consulted.
BarcodeFromHeaderAsStated ==
    /\ OneRowRead
       => LET barcodeIdx == ResolvedColumns.barcodeIdx
              cell == At(DataRow, barcodeIdx)
          IN  barcodeIdx # -1
              => parseResult.records[1].barcode
                     = IF Truthy(cell) THEN Trim(ToStr(cell)) ELSE <<"-">>
    /\ OneMasterRowRead
       => parseResult.records[1].barcode = Trim(ToStr(At(DataRow, MasterBarcodeIdx)))

\* C18, amended: in sales ingestion the record's barcode is the trimmed value
\* of the resolved barcode column when that cell is not empty, else the
\* trimmed value of column I (index 8) when that cell is not empty, else "-";
\* in master ingestion it is the trimmed value of column K (index 10) when
\* that cell is not empty, and of the resolved barcode column otherwise.
BarcodeResolution ==
    /\ OneRowRead
       => LET barcodeIdx == ResolvedColumns.barcodeIdx
              cell == At(DataRow, barcodeIdx)
          IN  parseResult.records[1].barcode
                  = IF barcodeIdx # -1 /\ Truthy(cell) THEN Trim(ToStr(cell))
                    ELSE IF Truthy(At(DataRow, 8)) THEN Trim(ToStr(At(DataRow, 8)))
                    ELSE <<"-">>
    /\ OneMasterRowRead
       => parseResult.records[1].barcode
              = IF Truthy(At(DataRow, 10)) THEN Trim(ToStr(At(DataRow, 10)))
                ELSE Trim(ToStr(At(DataRow, MasterBarcodeIdx)))

\* a sales row whose cell in the resolved barcode column is empty has the
\* barcode of column I
BarcodeResolutionWitness ==
    /\ OneRowRead
    /\ LET barcodeIdx == ResolvedColumns.barcodeIdx
       IN  barcodeIdx # -1 /\ ~Truthy(At(DataRow, barcodeIdx))
    /\ At(DataRow, 8) = Text(<<" ", "7", "7", " ">>)
    /\ parseResult.records[1].barcode = <<"7", "7">>

\* the name cell of the data row as the parser that ran resolves it
NameCell ==
    LET headers == HeadersOf(parseInput.rawData[1])
        cols == ResolvedColumns
    IN  IF parser = "sales"
        THEN (IF cols.nameIdx # -1 THEN At(DataRow, cols.nameIdx)
              ELSE IF cols.barcodeIdx # -1 THEN At(DataRow, cols.barcodeIdx)
              ELSE Empty)
        ELSE IF parser = "master" THEN At(DataRow, FirstHit(MasterScans(headers).name))
        ELSE At(DataRow, FirstHit(InboundScans(headers)[2]))

\* C19: in sales, master and inbound ingestion alike, a data row whose first
\* cell or whose resolved name cell matches the total/subtotal pattern gives
\* no record.
TotalRowsSkipped ==
    (/\ parser # "none" /\ parseInput.decodes
     /\ Len(parseInput.rawData) = 2
     /\ parseResult.status = "resolved"
     /\ \/ Truthy(At(DataRow, 0)) /\ Test(Re.total, ToStr(At(DataRow, 0)))
        \/ LET name == NameCell IN Truthy(name) /\ Test(Re.total, ToStr(name)))
    => parseResult.records = <<>>

\* the trimmed barcodes of the master and of the sales records
TrimmedBarcodes ==
    {Trim(masterRecords[i].barcode) : i \in DOMAIN masterRecords}
        \cup {Trim(records[i].barcode) : i \in DOMAIN records}

\* the sum of a quantity over the sales records of a trimmed barcode, from
\* record n down
RECURSIVE SoldOf(_, _)
SoldOf(barcode, n) ==
    IF n = 0 THEN 0
    ELSE SoldOf(barcode, n - 1)
            + (IF Trim(records[n].barcode) = barcode THEN records[n].salesQty ELSE 0)

\* C20: getProductSummary returns exactly one ProductSummary per distinct
\* trimmed barcode of master and sales; records and master entries whose
\* barcodes differ by white space only accumulate into the same summary, and
\* a master barcode without sales has cumulativeSales 0 and coupangInventory 0.
OneSummaryPerBarcode ==
    rendered =>
        /\ {productList[i].barcode : i \in DOMAIN productList} = TrimmedBarcodes
        /\ Len(productList) = Cardinality(TrimmedBarcodes)
        /\ \A i \in DOMAIN productList :
              /\ productList[i].cumulativeSales = SoldOf(productList[i].barcode, Len(records))
              /\ (\A n \in DOMAIN records : Trim(records[n].barcode) # productList[i].barcode)
                 => productList[i].coupangInventory = 0

\* a master barcode and two sales barcodes that differ by white space only
\* have one summary with the sales of both records, next to the summary of a
\* master barcode without sales
OneSummaryPerBarcodeWitness ==
    /\ rendered
    /\ \E m \in DOMAIN masterRecords, a, b \in DOMAIN records, i, j \in DOMAIN productList :
          /\ masterRecords[m].barcode # records[a].barcode
          /\ records[a].barcode # records[b].barcode
          /\ Trim(masterRecords[m].barcode) = Trim(records[a].barcode)
          /\ Trim(records[a].barcode) = Trim(records[b].barcode)
          /\ productList[i].barcode = Trim(records[a].barcode)
          /\ productList[i].cumulativeSales = records[a].salesQty + records[b].salesQty
          /\ productList[j].cumulativeSales = 0
          /\ productList[j].coupangInventory = 0

\* the latest date of the whole record set
LatestDate ==
    LET dates == {records[n].date : n \in DOMAIN records}
    IN  CHOOSE d \in dates : \A e \in dates : e = d \/ Before(e, d)

\* C21: for every ProductSummary, cumulativeSales is the sum of salesQty over
\* all of that barcode's records on all dates, and coupangInventory is the
\* sum of inventoryQty over only that barcode's records dated the latest date
\* of the whole record set; a barcode with no record on the latest date has
\* coupangInventory 0.
InventoryOfLatestDate ==
    (rendered /\ records # <<>>) =>
        LET latest == LatestDate
            trimmed == [n \in DOMAIN records |-> Trim(records[n].barcode)]
        IN  \A i \in DOMAIN productList :
               LET mine == {n \in DOMAIN records : trimmed[n] = productList[i].barcode}
                   sold[n \in 0..Len(records)] ==
                       IF n = 0 THEN 0
                       ELSE sold[n - 1] + (IF n \in mine THEN records[n].salesQty ELSE 0)
                   held[n \in 0..Len(records)] ==
                       IF n = 0 THEN 0
                       ELSE held[n - 1] + (IF n \in mine /\ records[n].date = latest
                                           THEN records[n].inventoryQty ELSE 0)
               IN  /\ productList[i].cumulativeSales = sold[Len(records)]
                   /\ productList[i].coupangInventory = held[Len(records)]
                   /\ (\A n \in mine : records[n].date # latest)
                      => productList[i].coupangInventory = 0

\* a barcode sold on both dates counts the inventory of the latest date only,
\* and a barcode whose only record has inventory on the earlier date has
\* coupangInventory 0
InventoryOfLatestDateWitness ==
    /\ rendered
    /\ \E a, b \in DOMAIN records, i \in DOMAIN productList :
          /\ Before(records[a].date, records[b].date)
          /\ records[a].inventoryQty > 0
          /\ productList[i].barcode = Trim(records[a].barcode)
          /\ productList[i].cumulativeSales > 0
          /\ \/ /\ Trim(records[a].barcode) = Trim(records[b].barcode)
                /\ productList[i].coupangInventory = records[b].inventoryQty
             \/ /\ Trim(records[a].barcode) # Trim(records[b].barcode)
                /\ productList[i].coupangInventory = 0

\* P holds of every risk entry of the last render: of every group and of
\* every item of a group
EveryRiskEntry(P(_)) ==
    \A g \in DOMAIN inventoryRisks :
        /\ P(inventoryRisks[g])
        /\ \A i \in DOMAIN inventoryRisks[g].items : P(inventoryRisks[g].items[i])

\* the status of an entry is the one of the three its balance calls for
StatusByBalance(e) ==
    LET balance == e.expectedBalance7Days
        avg == e.weightedDailyAvg
        negative == balance.num < 0
        short == balance.num * avg.den < avg.num * 14 * balance.den
    IN  /\ e.status \in {"Danger", "Warning", "Safe"}
        /\ e.status = "Danger" <=> negative
        /\ e.status = "Warning" <=> ~negative /\ short
        /\ e.status = "Safe" <=> ~negative /\ ~short

\* the balance of an entry is ten times its weighted daily average
TenDaysLeft(e) ==
    e.expectedBalance7Days.num * e.weightedDailyAvg.den
        = e.weightedDailyAvg.num * 10 * e.expectedBalance7Days.den

\* C22 as stated: every group and item is Danger exactly when its balance is
\* below 0, Warning exactly when it is from 0 to below weightedDailyAvg * 14,
\* Safe otherwise, and any entry whose balance equals weightedDailyAvg * 10
\* is Warning.
RiskStatusAsStated ==
    rendered =>
        LET stated(e) == StatusByBalance(e) /\ (TenDaysLeft(e) => e.status = "Warning")
        IN  EveryRiskEntry(stated)

\* C22: every group and item is Danger exactly when its balance is below 0,
\* Warning exactly when it is from 0 to below weightedDailyAvg * 14, Safe
\* otherwise, and an entry with a positive weightedDailyAvg whose balance
\* equals weightedDailyAvg * 10 is Warning.
RiskStatus ==
    rendered =>
        LET holds(e) == /\ StatusByBalance(e)
                        /\ (e.weightedDailyAvg.num > 0 /\ TenDaysLeft(e)) => e.status = "Warning"
        IN  EveryRiskEntry(holds)

\* a group with sales whose balance is ten times its weighted daily average
\* is Warning, next to a group that is Danger
RiskStatusWitness ==
    /\ rendered
    /\ \E g, h \in DOMAIN inventoryRisks :
          /\ inventoryRisks[g].weightedDailyAvg.num > 0
          /\ TenDaysLeft(inventoryRisks[g])
          /\ inventoryRisks[g].status = "Warning"
          /\ inventoryRisks[h].status = "Danger"

\* the sum of salesQty over the records numbered in a set
SalesOver(S) ==
    LET sum[n \in 0..Len(records)] ==
            IF n = 0 THEN 0 ELSE sum[n - 1] + (IF n \in S THEN records[n].salesQty ELSE 0)
    IN  sum[Len(records)]

\* the numbers of the records of a risk entry of a group: those of the
\* barcodes of its items
RecordsOfGroup(risk) ==
    {n \in DOMAIN records :
        \E i \in DOMAIN risk.items : risk.items[i].barcode = Trim(records[n].barcode)}

\* C23: for every product group, prevDaySales is its sales on the latest date
\* of the whole record set, avg7Days its sales over the last 7 distinct dates
\* of the whole record set (all dates when there are fewer) divided by 7,
\* weightedDailyAvg = (avg7Days + prevDaySales) / 2, expectedDemand7Days =
\* weightedDailyAvg * 7 and expectedBalance7Days = currentInventory +
\* inboundQty - expectedDemand7Days.
DemandEstimate ==
    rendered =>
        LET latest == LatestDate
            dates == {records[n].date : n \in DOMAIN records}
            last7 == {d \in dates : Cardinality({e \in dates : Before(d, e)}) < 7}
        IN  \A g \in DOMAIN inventoryRisks :
               LET risk == inventoryRisks[g]
                   mine == RecordsOfGroup(risk)
                   avg == risk.avg7Days
                   weighted == risk.weightedDailyAvg
                   demand == risk.expectedDemand7Days
                   balance == risk.expectedBalance7Days
               IN  /\ risk.prevDaySales = SalesOver({n \in mine : records[n].date = latest})
                   /\ avg.num * 7 = SalesOver({n \in mine : records[n].date \in last7}) * avg.den
                   /\ weighted.num * 2 * avg.den = (avg.num + risk.prevDaySales * avg.den) * weighted.den
                   /\ demand.num * weighted.den = weighted.num * 7 * demand.den
                   /\ balance.num * demand.den
                         = ((risk.currentInventory + risk.inboundQty) * demand.den - demand.num) * balance.den

\* a group sold on more than 7 dates, the earliest of them included, and on
\* the latest: the average counts less than all its sales
DemandEstimateWitness ==
    /\ rendered
    /\ Cardinality({records[n].date : n \in DOMAIN records}) > 7
    /\ \E g \in DOMAIN inventoryRisks :
          LET risk == inventoryRisks[g]
          IN  /\ risk.prevDaySales > 0
              /\ risk.avg7Days.num * 7 < SalesOver(RecordsOfGroup(risk)) * risk.avg7Days.den
              /\ risk.avg7Days.num * 7 > risk.prevDaySales * risk.avg7Days.den

\* the sum of inboundQty over the inbound records numbered in a set
InboundOver(S) ==
    LET sum[n \in 0..Len(inboundRecords)] ==
            IF n = 0 THEN 0 ELSE sum[n - 1] + (IF n \in S THEN inboundRecords[n].inboundQty ELSE 0)
    IN  sum[Len(inboundRecords)]

\* C24: the inboundQty of each risk entry is the sum of inboundQty over the
\* inbound records whose productName equals the group name, whatever their
\* barcodes, 0 when there is none, and every item of an entry reports
\* inboundQty 0.
InboundByName ==
    rendered =>
        \A g \in DOMAIN inventoryRisks :
            LET risk == inventoryRisks[g]
            IN  /\ risk.inboundQty
                      = InboundOver({n \in DOMAIN inboundRecords :
                                        inboundRecords[n].productName = risk.productName})
                /\ \A i \in DOMAIN risk.items : risk.items[i].inboundQty = 0

\* a group takes the inbound of a record of its name under the barcode of
\* another group, which has no inbound record of its name and gets 0
InboundByNameWitness ==
    /\ rendered
    /\ \E g, h \in DOMAIN inventoryRisks, n \in DOMAIN inboundRecords :
          /\ inboundRecords[n].productName = inventoryRisks[g].productName
          /\ \A i \in DOMAIN inventoryRisks[g].items :
                inventoryRisks[g].items[i].barcode # inboundRecords[n].barcode
          /\ \E i \in DOMAIN inventoryRisks[h].items :
                inventoryRisks[h].items[i].barcode = inboundRecords[n].barcode
          /\ inventoryRisks[g].inboundQty > inboundRecords[n].inboundQty
          /\ inventoryRisks[h].inboundQty = 0

\* the day, counted from 1970-01-01, of a date YYYY-MM-DD
DayOf(date) ==
    DaysFromCivil(DigitsToNat(SubSeq(date, 1, 4)), DigitsToNat(SubSeq(date, 6, 7)),
                  DigitsToNat(SubSeq(date, 9, 10)))

\* the label M/D~M/D of a range of days
WeekLabel(first, last) ==
    LET a == CivilFromDays(first)
        b == CivilFromDays(last)
    IN  NatToText(a.m) \o <<"/">> \o NatToText(a.d) \o <<"~">>
            \o NatToText(b.m) \o <<"/">> \o NatToText(b.d)

\* C25: for every latest date of the records, the current week starts on the
\* most recent Friday on or before it, (dayOfWeek + 2) mod 7 days back with
\* Sunday = 0, and spans 7 days; the previous week is the 7 days right before
\* it; thisWeekSales and lastWeekSales are the sales of the records dated in
\* the one and in the other range, so no record counts in both.  2026-01-30
\* is a Friday and 2026-02-01 a Sunday.
FridayWeeks ==
    (rendered /\ records # <<>>) =>
        LET latest == DayOf(LatestDate)
            friday == CHOOSE f \in (latest - 6)..latest : (f - DayOf(<<"2", "0", "2", "6", "-", "0", "1", "-", "3", "0">>)) % 7 = 0
            dayOfWeek == (latest - DayOf(<<"2", "0", "2", "6", "-", "0", "2", "-", "0", "1">>)) % 7
            day == [n \in DOMAIN records |-> DayOf(records[n].date)]
            thisWeek == {n \in DOMAIN records : day[n] \in friday..(friday + 6)}
            lastWeek == {n \in DOMAIN records : day[n] \in (friday - 7)..(friday - 1)}
        IN  /\ latest - friday = (dayOfWeek + 2) % 7
            /\ weeklyStats.thisWeekLabel = WeekLabel(friday, friday + 6)
            /\ weeklyStats.lastWeekLabel = WeekLabel(friday - 7, friday - 1)
            /\ weeklyStats.thisWeekSales = SalesOver(thisWeek)
            /\ weeklyStats.lastWeekSales = SalesOver(lastWeek)
            /\ thisWeek \cap lastWeek = {}

\* the latest date is 2026-01-30: the weeks are 1/30~2/5 and 1/23~1/29, with
\* sales in both
FridayWeeksWitness ==
    /\ rendered
    /\ records # <<>>
    /\ LatestDate = <<"2", "0", "2", "6", "-", "0", "1", "-", "3", "0">>
    /\ weeklyStats.thisWeekLabel = <<"1", "/", "3", "0", "~", "2", "/", "5">>
    /\ weeklyStats.lastWeekLabel = <<"1", "/", "2", "3", "~", "1", "/", "2", "9">>
    /\ weeklyStats.thisWeekSales > 0
    /\ weeklyStats.lastWeekSales > weeklyStats.thisWeekSales

\* C26: after any sequence of addRecords calls, once every request to the
\* store has been carried out and the load has ended, the value stored under
\* the sales key is the in-memory record set.
PersistedConverges ==
    (uploads # <<>> /\ nClears = 0 /\ dbQueue = <<>> /\ loadPc = "done")
        => store[STORAGE_KEY] = Stored(records)

\* C27: for a stored set with unique keys and any batch, after addRecords the
\* keys of the record set are those of the stored set and of the batch, every
\* stored record whose key is not in the batch is in the record set as it
\* was, and the batch is as it was passed in.
MergeFrame ==
    (lastOp = "add" /\ \A i, j \in DOMAIN prevRecords :
                          Key(prevRecords[i]) = Key(prevRecords[j]) => i = j)
    => LET batchKeys == KeysOf(lastBatch)
       IN  /\ KeysOf(records) = KeysOf(prevRecords) \cup batchKeys
           /\ \A i \in DOMAIN prevRecords :
                 Key(prevRecords[i]) \notin batchKeys
                    => Cardinality({j \in DOMAIN records : records[j] = prevRecords[i]}) = 1
           /\ lastBatch = uploads[Len(uploads)]

\* a batch that replaces one stored record, adds a key and leaves another
\* stored record alone
MergeFrameWitness ==
    /\ lastOp = "add"
    /\ Len(prevRecords) = 2
    /\ Len(records) = 3
    /\ \E i, j \in DOMAIN prevRecords :
          /\ Key(prevRecords[i]) \notin KeysOf(lastBatch)
          /\ prevRecords[i] \in Range(records)
          /\ Key(prevRecords[j]) \in KeysOf(lastBatch)
          /\ prevRecords[j] \notin Range(records)

\* C28: when the ingestion of an upload returns errors or throws, the handler
\* of the upload does not merge: the step that ends the upload leaves the
\* in-memory sales, master and inbound sets, the store and the requests to
\* the store as they were, and leaves the uploader with its processing flag
\* cleared and an error message set.
FailedUploadChangesNothing ==
    [][\A mode \in DOMAIN uploader :
          (/\ uploader'[mode].parsing < uploader[mode].parsing
           /\ uploader'[mode].settled \in {"errors", "thrown"})
          => /\ UNCHANGED <<records, masterRecords, inboundRecords, store, dbQueue>>
             /\ ~uploader'[mode].isProcessing
             /\ uploader'[mode].error # Null]_vars

\* a sales upload ended with two errors and a master upload by a throw, with
\* sales, master and inbound sets of an earlier session in place
FailedUploadWitness ==
    /\ uploader["sales"].settled = "errors"
    /\ uploader["sales"].error = "e1, e2"
    /\ ~uploader["sales"].isProcessing
    /\ uploader["master"].settled = "thrown"
    /\ uploader["master"].error # Null
    /\ ~uploader["master"].isProcessing
    /\ records = <<rA1>> /\ store[STORAGE_KEY] = Stored(records)
    /\ masterRecords = <<mA>> /\ store[MASTER_STORAGE_KEY] = Stored(masterRecords)
    /\ inboundRecords # <<>>
    /\ dbQueue = <<>>

\* C29: every ProductSummary is an item of exactly one ProductGroup, no two
\* groups have the same name, the totals and the daily sales of a group are
\* the sums over its items, and the totalCumulativeSales of all groups add
\* up to the salesQty of all records.
AggregationConserves ==
    rendered =>
        LET sum(seq, of(_)) ==
                LET s[n \in 0..Len(seq)] == IF n = 0 THEN 0 ELSE s[n - 1] + of(seq[n])
                IN  s[Len(seq)]
            cumulative(x) == x.cumulativeSales
            coupang(x) == x.coupangInventory
            hq(x) == x.hqInventory
            total(g) == g.totalCumulativeSales
        IN  /\ \A i \in DOMAIN productList :
                  Cardinality({p \in (DOMAIN productGroups) \X (DOMAIN productList) :
                                  /\ p[2] \in DOMAIN productGroups[p[1]].items
                                  /\ productGroups[p[1]].items[p[2]] = productList[i]}) = 1
            /\ \A g, h \in DOMAIN productGroups :
                  productGroups[g].groupName = productGroups[h].groupName => g = h
            /\ \A g \in DOMAIN productGroups :
                  LET group == productGroups[g]
                      dates == UNION {DOMAIN group.items[k].dailySalesMap : k \in DOMAIN group.items}
                  IN  /\ group.totalCumulativeSales = sum(group.items, cumulative)
                      /\ group.totalCoupangInventory = sum(group.items, coupang)
                      /\ group.totalHqInventory = sum(group.items, hq)
                      /\ DOMAIN group.dailySalesMap = dates
                      /\ \A d \in dates :
                            LET sold(x) == IF d \in DOMAIN x.dailySalesMap THEN x.dailySalesMap[d] ELSE 0
                            IN  group.dailySalesMap[d] = sum(group.items, sold)
            /\ sum(productGroups, total) = SalesOver(DOMAIN records)

\* a group of two summaries with sales next to a group of a master barcode
\* without sales
AggregationConservesWitness ==
    /\ rendered
    /\ \E g, h \in DOMAIN productGroups :
          /\ Len(productGroups[g].items) = 2
          /\ \A k \in DOMAIN productGroups[g].items :
                /\ productGroups[g].items[k].cumulativeSales > 0
                /\ productGroups[g].items[k].cumulativeSales < productGroups[g].totalCumulativeSales
          /\ productGroups[h].totalCumulativeSales = 0
          /\ productGroups[h].totalHqInventory > 0

\* C30: every date sales ingestion writes into a record is a text YYYY-MM-DD
\* that names a calendar date: a month from 01 to 12 and a day the month has.
DatesAreCalendarDates ==
    (parser = "sales" /\ parseResult.status = "resolved") =>
        \A i \in DOMAIN parseResult.records :
            LET date == parseResult.records[i].date
                shaped == /\ Len(date) = 10
                          /\ \A k \in 1..10 : IF k \in {5, 8} THEN date[k] = "-" ELSE IsDigit(date[k])
                year == DigitsToNat(SubSeq(date, 1, 4))
                month == DigitsToNat(SubSeq(date, 6, 7))
                day == DigitsToNat(SubSeq(date, 9, 10))
            IN  /\ shaped
                /\ month \in 1..12
                /\ day \in 1..DaysInMonth(year, month)

====
